---- MODULE Spec2Model ----
(***************************************************************************)
(* A model of the js-data adapter for Cloudflare D1: the table cache, the  *)
(* construction-time catalog query, the eleven adapter operations with     *)
(* their awaits as interleaving points, and the remote database behind     *)
(* the HTTP endpoint. Two further specifications apply the pure functions  *)
(* of util.js to bounded sets of inputs: createTableSql to mappers with    *)
(* schemas, toSql to abstract queries held as objects in memory. A last    *)
(* specification adds the host's reaction to the unhandled rejection of    *)
(* the constructor's task, and the fairness of the remote calls.           *)
(*                                                                         *)
(* JavaScript values: a string that the code takes apart (a mapper or      *)
(* table name) is a sequence of one-character strings; an object is a      *)
(* record, or a sequence of <<key, value>> pairs where key order matters;  *)
(* an absent property is an absent record field; the value undefined as a  *)
(* payload is the record Undefined.                                        *)
(***************************************************************************)
EXTENDS Integers, Sequences, FiniteSets, TLC

\* ------------------------------------------------------------------ bounds
MaxOps == 2          \* operations invoked on one adapter instance
MaxRecords == 2      \* records handed to one updateMany / createMany

Procs == {"p1", "p2"}        \* callers whose operations may overlap
Ids == {1, 2}                \* row ids the remote table can hold
Vals == {0, 1}               \* values of the data column v

Undefined == [undefined |-> TRUE]

\* --------------------------------------------------------- small helpers
Range(s) == {s[i] : i \in DOMAIN s}

RECURSIVE SeqSum(_)
SeqSum(s) == IF s = <<>> THEN 0 ELSE s[1] + SeqSum(Tail(s))

RECURSIVE SeqOfSet(_)
\* the elements of a set in some fixed order
SeqOfSet(S) ==
    IF S = {} THEN <<>>
    ELSE LET x == CHOOSE y \in S : TRUE IN <<x>> \o SeqOfSet(S \ {x})

\* ------------------------------------------------------------ util.js
Uppers == <<"A","B","C","D","E","F","G","H","I","J","K","L","M",
            "N","O","P","Q","R","S","T","U","V","W","X","Y","Z">>
Lowers == <<"a","b","c","d","e","f","g","h","i","j","k","l","m",
            "n","o","p","q","r","s","t","u","v","w","x","y","z">>

IsUpper(c) == \E i \in DOMAIN Uppers : Uppers[i] = c

toLowerCase(c) ==
    IF IsUpper(c) THEN Lowers[CHOOSE i \in DOMAIN Uppers : Uppers[i] = c] ELSE c

RECURSIVE InsertUnderscores(_)
\* str.replace(/([A-Z])/g, '_$1')
InsertUnderscores(str) ==
    IF str = <<>> THEN <<>>
    ELSE (IF IsUpper(str[1]) THEN <<"_", str[1]>> ELSE <<str[1]>>)
         \o InsertUnderscores(Tail(str))

\* (mutant) the leading underscore stays
StripNothing(str) == str

\* .replace(/^_/, '')
StripLeadingUnderscore(str) ==
    IF str # <<>> /\ str[1] = "_" THEN Tail(str) ELSE str

underscore(str) ==
    LET marked == InsertUnderscores(str)
    IN StripLeadingUnderscore([i \in DOMAIN marked |-> toLowerCase(marked[i])])

\* An object whose key order matters: a sequence of <<key, value>> pairs.
Has(obj, key) == \E i \in DOMAIN obj : obj[i][1] = key
Get(obj, key) == obj[CHOOSE i \in DOMAIN obj : obj[i][1] = key][2]
Delete(obj, key) == SelectSeq(obj, LAMBDA e : e[1] # key)

\* knex(table): the query builder. limit and offset hold at most one value.
knex(table) ==
    [table |-> table, method |-> "select", arg |-> <<>>, wheres |-> <<>>,
     limit |-> <<>>, offset |-> <<>>, orderBy |-> <<>>]

Where(builder, field, op, value) ==
    [builder EXCEPT !.wheres = Append(@, [field |-> field, op |-> op, value |-> value])]

\* (mutant) >= is compiled as >, and !== is not known
ApplyOpStrict(builder, field, op, value) ==
    CASE op \in {"==", "==="}              -> Where(builder, field, "=", value)
      [] op = "!="                         -> Where(builder, field, "<>", value)
      [] op \in {">", ">="}                -> Where(builder, field, ">", value)
      [] op \in {"<", "<="}                -> Where(builder, field, op, value)
      [] op \in {"in", "contains"}         -> Where(builder, field, "in", value)
      [] op \in {"notIn", "notContains"}   -> Where(builder, field, "not in", value)
      [] OTHER                             -> builder

\* (mutant) an operator the switch does not know is handed to the builder
ApplyOpAny(builder, field, op, value) ==
    CASE op \in {"==", "==="}              -> Where(builder, field, "=", value)
      [] op \in {"!=", "!=="}              -> Where(builder, field, "<>", value)
      [] op \in {"in", "contains"}         -> Where(builder, field, "in", value)
      [] op \in {"notIn", "notContains"}   -> Where(builder, field, "not in", value)
      [] OTHER                             -> Where(builder, field, op, value)

\* one operator entry of a field's condition object (the switch of toSql)
ApplyOp(builder, field, op, value) ==
    CASE op \in {"==", "==="}              -> Where(builder, field, "=", value)
      [] op \in {"!=", "!=="}              -> Where(builder, field, "<>", value)
      [] op \in {">", ">=", "<", "<="}     -> Where(builder, field, op, value)
      [] op \in {"in", "contains"}         -> Where(builder, field, "in", value)
      [] op \in {"notIn", "notContains"}   -> Where(builder, field, "not in", value)
      [] OTHER                             -> builder

\* (mutant) only the first operator of a condition object is applied
ApplyCondFirst(builder, field, cond) ==
    IF cond = <<>> THEN builder ELSE ApplyOp(builder, field, cond[1][1], cond[1][2])

RECURSIVE ApplyCond(_, _, _)
ApplyCond(builder, field, cond) ==
    IF cond = <<>> THEN builder
    ELSE ApplyCond(ApplyOp(builder, field, cond[1][1], cond[1][2]), field, Tail(cond))

RECURSIVE ApplyFields(_, _)
ApplyFields(builder, query) ==
    IF query = <<>> THEN builder
    ELSE ApplyFields(ApplyCond(builder, query[1][1], query[1][2]), Tail(query))

RECURSIVE ApplyOrderBy(_, _)
ApplyOrderBy(builder, orderBy) ==
    IF orderBy = <<>> THEN builder
    ELSE ApplyOrderBy(
            [builder EXCEPT !.orderBy =
                Append(@, <<orderBy[1][1],
                            [i \in DOMAIN orderBy[1][2] |-> toLowerCase(orderBy[1][2][i])]>>)],
            Tail(orderBy))

\* Objects in memory. The heap is the sequence of the query objects that
\* exist, an object's address its index; an object is its <<key, value>>
\* pairs, and the value of the key where is the address of the nested
\* query object. Condition objects and orderBy arrays are values: toSql
\* deletes keys of query objects only.
RECURSIVE Value(_, _)
\* the query at an address, its nested objects in place of their addresses
Value(heap, a) ==
    [i \in DOMAIN heap[a] |->
        IF heap[a][i][1] = "where"
        THEN <<"where", Value(heap, heap[a][i][2])>> ELSE heap[a][i]]

RECURSIVE Alloc(_, _)
\* new objects for a query and the queries nested in it
Alloc(heap, value) ==
    IF Has(value, "where")
    THEN LET inner == Alloc(heap, Get(value, "where"))
         IN [heap |-> Append(inner.heap,
                             [i \in DOMAIN value |->
                                 IF value[i][1] = "where"
                                 THEN <<"where", inner.ref>> ELSE value[i]]),
             ref |-> Len(inner.heap) + 1]
    ELSE [heap |-> Append(heap, value), ref |-> Len(heap) + 1]

\* (mutant) the object itself is handed back
plainCopyAlias(heap, a) == [heap |-> heap, ref |-> a]

\* utils.plainCopy(query): a deep copy
plainCopy(heap, a) == Alloc(heap, Value(heap, a))

RECURSIVE DeleteEach(_)
\* delete query[field] for every entry
DeleteEach(obj) == IF obj = <<>> THEN obj ELSE DeleteEach(Delete(obj, obj[1][1]))

RECURSIVE toSqlObjects(_, _)
\* what toSql(builder, query) does to the objects in memory, query being
\* the object at address a: it works on a copy and deletes the copy's keys
toSqlObjects(heap, a) ==
    LET copy == plainCopy(heap, a)
        query == copy.ref
        obj == copy.heap[query]
        nested == IF Has(obj, "where")
                  THEN toSqlObjects(copy.heap, Get(obj, "where")) ELSE copy.heap
    IN [nested EXCEPT ![query] =
            DeleteEach(Delete(Delete(Delete(Delete(obj, "limit"), "offset"), "orderBy"),
                              "where"))]

\* (mutant) only the key that was inserted first is looked at
toSqlFirstKey(builder, query) ==
    IF query = <<>> THEN builder
    ELSE IF query[1][1] = "limit" THEN [builder EXCEPT !.limit = <<query[1][2]>>]
    ELSE IF query[1][1] = "offset" THEN [builder EXCEPT !.offset = <<query[1][2]>>]
    ELSE builder

RECURSIVE toSql(_, _)
toSql(builder, query) ==
    LET b1 == IF Has(query, "limit")
              THEN [builder EXCEPT !.limit = <<Get(query, "limit")>>] ELSE builder
        b2 == IF Has(query, "offset")
              THEN [b1 EXCEPT !.offset = <<Get(query, "offset")>>] ELSE b1
        b3 == IF Has(query, "orderBy") THEN ApplyOrderBy(b2, Get(query, "orderBy")) ELSE b2
        b4 == IF Has(query, "where") THEN toSql(b3, Get(query, "where")) ELSE b3
        rest == Delete(Delete(Delete(Delete(query, "limit"), "offset"), "orderBy"), "where")
    IN ApplyFields(b4, rest)

\* (mutant) a boolean property gets a type of its own
ColumnTypeBoolean(fieldSchema) ==
    IF "type" \in DOMAIN fieldSchema
    THEN CASE fieldSchema.type \in {"number", "integer"}  -> "INTEGER"
           [] fieldSchema.type = "boolean"                -> "BOOLEAN"
           [] OTHER                                       -> "TEXT"
    ELSE "TEXT"

\* one column definition of createTableSql for a schema property
ColumnType(fieldSchema) ==
    IF "type" \in DOMAIN fieldSchema
    THEN CASE fieldSchema.type = "string"                 -> "TEXT"
           [] fieldSchema.type \in {"number", "integer"}  -> "INTEGER"
           [] fieldSchema.type = "boolean"                -> "INTEGER"
           [] fieldSchema.type \in {"object", "array"}    -> "TEXT"
           [] OTHER                                       -> "TEXT"
    ELSE "TEXT"

Flag(fieldSchema, key) == key \in DOMAIN fieldSchema /\ fieldSchema[key]

\* (mutant) a string default is written without quotes
DefaultLiteralBare(value) == value.text

\* The text after DEFAULT. A default value is its JavaScript type and the
\* text a template literal gives it; a string is wrapped in single quotes.
DefaultLiteral(value) ==
    IF value.typeof = "string" THEN "'" \o value.text \o "'" ELSE value.text

\* a column definition is the sequence of its parts: name, type, constraints
ColumnDef(fieldName, fieldSchema, idAttribute) ==
    <<fieldName, ColumnType(fieldSchema)>>
    \o (IF fieldName = idAttribute THEN <<"PRIMARY KEY AUTOINCREMENT">> ELSE <<>>)
    \o (IF Flag(fieldSchema, "required") \/ Flag(fieldSchema, "notNull")
        THEN <<"NOT NULL">> ELSE <<>>)
    \o (IF Flag(fieldSchema, "unique") THEN <<"UNIQUE">> ELSE <<>>)
    \o (IF "default" \in DOMAIN fieldSchema
        THEN <<"DEFAULT", DefaultLiteral(fieldSchema["default"])>> ELSE <<>>)

RECURSIVE SchemaColumns(_, _, _)
SchemaColumns(properties, idAttribute, columns) ==
    IF properties = <<>> THEN columns
    ELSE SchemaColumns(
            Tail(properties), idAttribute,
            IF properties[1][1] = idAttribute /\ Len(columns) > 0
            THEN columns
            ELSE Append(columns, ColumnDef(properties[1][1], properties[1][2], idAttribute)))

IdAttributeOf(mapper) ==
    IF "idAttribute" \in DOMAIN mapper /\ mapper.idAttribute # ""
    THEN mapper.idAttribute ELSE "_id"

PropertiesOf(mapper) ==
    IF "schema" \in DOMAIN mapper /\ "properties" \in DOMAIN mapper.schema
    THEN mapper.schema.properties ELSE <<>>

\* (mutant) a plain CREATE TABLE with the synthesized id column
createTableSqlPlain(mapper, tableName) ==
    [method |-> "create", ifNotExists |-> FALSE, table |-> tableName,
     columns |-> <<<<IdAttributeOf(mapper), "INTEGER", "PRIMARY KEY AUTOINCREMENT">>>>]

\* the CREATE TABLE IF NOT EXISTS statement, as its table and column list
createTableSql(mapper, tableName) ==
    LET idAttribute == IdAttributeOf(mapper)
        properties == PropertiesOf(mapper)
        first == IF ~Has(properties, idAttribute)
                 THEN <<<<idAttribute, "INTEGER", "PRIMARY KEY AUTOINCREMENT">>>>
                 ELSE <<>>
        columns == SchemaColumns(properties, idAttribute, first)
    IN [method |-> "create", ifNotExists |-> TRUE, table |-> tableName,
        columns |-> IF Len(columns) = 0
                    THEN <<<<idAttribute, "INTEGER", "PRIMARY KEY AUTOINCREMENT">>>>
                    ELSE columns]

RECURSIVE Text(_)
\* the string made of a sequence of strings
Text(parts) == IF parts = <<>> THEN "" ELSE parts[1] \o Text(Tail(parts))

RECURSIVE Join(_, _)
\* parts.join(sep)
Join(parts, sep) ==
    IF parts = <<>> THEN ""
    ELSE IF Len(parts) = 1 THEN parts[1]
    ELSE parts[1] \o sep \o Join(Tail(parts), sep)

\* the text of the statement createTableSql returns
DdlText(stmt) ==
    "CREATE TABLE IF NOT EXISTS " \o Text(stmt.table) \o " ("
    \o Join([i \in DOMAIN stmt.columns |-> Join(stmt.columns[i], " ")], ", ") \o ")"

\* ------------------------------------------------- the remote D1 database
\* The database maps each existing table name to its set of rows; a row is
\* a record with the id column and the data column v. A NULL column value
\* is an absent field.
Compare(a, op, b) ==
    CASE op = "="      -> a = b
      [] op = "<>"     -> a # b
      [] op = ">"      -> a > b
      [] op = ">="     -> a >= b
      [] op = "<"      -> a < b
      [] op = "<="     -> a <= b
      [] op = "in"     -> a \in Range(b)
      [] op = "not in" -> a \notin Range(b)

Matches(row, wheres) ==
    \A i \in DOMAIN wheres :
        /\ wheres[i].field \in DOMAIN row
        /\ Compare(row[wheres[i].field], wheres[i].op, wheres[i].value)

RECURSIVE RowLess(_, _, _)
RowLess(r1, r2, orderBy) ==
    IF orderBy = <<>> THEN r1.id < r2.id
    ELSE LET a == r1[orderBy[1][1]]
             b == r2[orderBy[1][1]]
         IN IF a = b THEN RowLess(r1, r2, Tail(orderBy))
            ELSE IF orderBy[1][2] = <<"d","e","s","c">> THEN a > b ELSE a < b

RECURSIVE SortRows(_, _)
SortRows(S, orderBy) ==
    IF S = {} THEN <<>>
    ELSE LET r == CHOOSE x \in S : \A y \in S \ {x} : RowLess(x, y, orderBy)
         IN <<r>> \o SortRows(S \ {r}, orderBy)

\* LIMIT / OFFSET applied to a result list
Page(rows, limit, offset) ==
    LET skip == IF offset = <<>> THEN 0 ELSE offset[1]
        rest == SubSeq(rows, skip + 1, Len(rows))
    IN IF limit = <<>> \/ limit[1] >= Len(rest) THEN rest ELSE SubSeq(rest, 1, limit[1])

NextRowId(rows) ==
    IF rows = {} THEN 1
    ELSE (CHOOSE i \in {r.id : r \in rows} : \A r \in rows : r.id <= i) + 1

RECURSIVE InsertRows(_, _)
\* the rows after inserting a list of props; the id is the given one or the next rowid
InsertRows(rows, list) ==
    IF list = <<>> THEN rows
    ELSE LET id == IF "id" \in DOMAIN list[1] THEN list[1].id ELSE NextRowId(rows)
         IN InsertRows(rows \cup {[id |-> id, v |-> list[1].v]}, Tail(list))

RECURSIVE LastInsertId(_, _)
LastInsertId(rows, list) ==
    LET id == IF "id" \in DOMAIN list[1] THEN list[1].id ELSE NextRowId(rows)
    IN IF Len(list) = 1 THEN id
       ELSE LastInsertId(rows \cup {[id |-> id, v |-> list[1].v]}, Tail(list))

UpdateRow(row, props) ==
    [k \in DOMAIN row |-> IF k \in DOMAIN props THEN props[k] ELSE row[k]]

UniqueIds(rows) == \A r1, r2 \in rows : r1.id = r2.id => r1 = r2

Meta(changes, last_row_id) == [changes |-> changes, last_row_id |-> last_row_id]

Reply(ok, db, results, meta) == [ok |-> ok, db |-> db, results |-> results, meta |-> meta]

SqlError(db) == Reply(FALSE, db, <<>>, Meta(0, 0))

\* What the database does with one statement: whether it succeeds, the
\* database afterwards, the result rows and the meta block.
Execute(db, stmt) ==
    IF stmt.method = "catalog"
    THEN Reply(TRUE, db, SeqOfSet({[name |-> t] : t \in DOMAIN db}), Meta(0, 0))
    ELSE IF stmt.method = "create"
    THEN IF stmt.table \in DOMAIN db
         THEN IF stmt.ifNotExists THEN Reply(TRUE, db, <<>>, Meta(0, 0)) ELSE SqlError(db)
         ELSE Reply(TRUE,
                    [t \in DOMAIN db \cup {stmt.table} |->
                        IF t \in DOMAIN db THEN db[t] ELSE {}],
                    <<>>, Meta(0, 0))
    ELSE IF stmt.table \notin DOMAIN db
    THEN SqlError(db)
    ELSE
    LET rows == db[stmt.table]
        hit == {r \in rows : Matches(r, stmt.wheres)}
    IN CASE stmt.method = "select" ->
              Reply(TRUE, db, Page(SortRows(hit, stmt.orderBy), stmt.limit, stmt.offset),
                    Meta(0, 0))
         [] stmt.method = "count" ->
              Reply(TRUE, db, Page(<<[count |-> Cardinality(hit)]>>, stmt.limit, stmt.offset),
                    Meta(0, 0))
         [] stmt.method = "sum" ->
              Reply(TRUE, db,
                    Page(<<IF hit = {} THEN [x \in {} |-> 0]
                           ELSE [sum |-> SeqSum([i \in 1..Cardinality(hit) |->
                                                   SortRows(hit, <<>>)[i][stmt.arg]])]>>,
                         stmt.limit, stmt.offset),
                    Meta(0, 0))
         [] stmt.method = "insert" ->
              LET new == InsertRows(rows, stmt.arg)
              IN IF /\ Cardinality(new) = Cardinality(rows) + Len(stmt.arg)
                    /\ UniqueIds(new)
                    /\ \A r \in new : r.id \in Ids
                 THEN Reply(TRUE, [db EXCEPT ![stmt.table] = new], <<>>,
                            Meta(Len(stmt.arg), LastInsertId(rows, stmt.arg)))
                 ELSE SqlError(db)
         [] stmt.method = "update" ->
              LET new == (rows \ hit) \cup {UpdateRow(r, stmt.arg) : r \in hit}
              IN IF Cardinality(new) = Cardinality(rows) /\ UniqueIds(new)
                 THEN Reply(TRUE, [db EXCEPT ![stmt.table] = new], <<>>,
                            Meta(Cardinality(hit), 0))
                 ELSE SqlError(db)
         [] stmt.method = "delete" ->
              Reply(TRUE, [db EXCEPT ![stmt.table] = rows \ hit], <<>>,
                    Meta(Cardinality(hit), 0))

\* The response envelope of the query endpoint for a statement. A message
\* is a sequence of its parts.
Envelope(reply) ==
    IF reply.ok
    THEN [success |-> TRUE, result |-> <<[results |-> reply.results, meta |-> reply.meta]>>,
          errors |-> <<>>]
    ELSE [success |-> FALSE, result |-> <<>>, errors |-> <<[message |-> <<"SQL error">>]>>]

\* ------------------------------------------------- the adapter's inputs
user == <<"u","s","e","r">>

\* mapper descriptors: name, idAttribute, optional table
UserMapper == [name |-> <<"U","s","e","r">>, idAttribute |-> "id"]
ItemMapper == [name |-> <<"I","t","e","m">>, idAttribute |-> "id", table |-> <<"t">>]
ProfileMapper ==
    [name |-> <<"U","s","e","r","P","r","o","f","i","l","e">>, idAttribute |-> "id"]
Mappers == {UserMapper, ItemMapper, ProfileMapper}

getTable(mapper) ==
    IF "table" \in DOMAIN mapper /\ mapper.table # <<>>
    THEN mapper.table ELSE underscore(mapper.name)

TableNames == {getTable(m) : m \in Mappers}

\* constructor parameters: autocreateTables given as true, given as false, not given
ParamsSet ==
    { [token |-> "token", autocreateTables |-> TRUE],
      [token |-> "token", autocreateTables |-> FALSE],
      [token |-> "token"] }

PropsSet == {[v |-> 1], [id |-> 2, v |-> 1]}
Records == {[id |-> 1, v |-> 1], [id |-> 2, v |-> 0]}
RecordLists == UNION {[1..n -> Records] : n \in 0..MaxRecords}
Queries == { <<>>, << <<"where", << <<"v", << <<"==", 1>> >> >> >> >> >> }

\* An invocation: the operation and its arguments. Arguments an operation
\* does not take hold a fixed filler. createMany's props array is propsList.
NoArgs ==
    [kind |-> "none", mapper |-> [name |-> <<>>, idAttribute |-> "id"], id |-> 0,
     props |-> [v |-> 0], propsList |-> <<>>, records |-> <<>>, query |-> <<>>, field |-> ""]

\* every operation with every argument of the sets above
OperationsOn(m) ==
    {[NoArgs EXCEPT !.kind = k, !.mapper = m, !.query = q] :
        k \in {"count", "findAll", "destroyAll"}, q \in Queries}
    \cup {[NoArgs EXCEPT !.kind = "create", !.mapper = m, !.props = x] : x \in PropsSet}
    \cup {[NoArgs EXCEPT !.kind = "createMany", !.mapper = m, !.propsList = l] :
            l \in RecordLists \ {<<>>}}
    \cup {[NoArgs EXCEPT !.kind = k, !.mapper = m, !.id = i] :
            k \in {"find", "destroy"}, i \in Ids}
    \cup {[NoArgs EXCEPT !.kind = "update", !.mapper = m, !.id = i, !.props = x] :
            i \in Ids, x \in PropsSet}
    \cup {[NoArgs EXCEPT !.kind = "updateAll", !.mapper = m, !.props = x, !.query = q] :
            x \in PropsSet, q \in Queries}
    \cup {[NoArgs EXCEPT !.kind = "updateMany", !.mapper = m, !.records = l] :
            l \in RecordLists}
    \cup {[NoArgs EXCEPT !.kind = "sum", !.mapper = m, !.field = "v", !.query = q] :
            q \in Queries}

\* the reading operations, one argument each
ReadsOn(m) ==
    { [NoArgs EXCEPT !.kind = "count", !.mapper = m],
      [NoArgs EXCEPT !.kind = "find", !.mapper = m, !.id = 1] }

\* the invocations of a series of operations, one at a time
Operations == OperationsOn(UserMapper) \cup ReadsOn(ItemMapper)

\* the invocations that may overlap: one of each shape of method (a read, an
\* aggregate, an insert, a delete, update with its follow-up find, and the
\* updateMany loop), and a read on the second table
Overlapping ==
    { [NoArgs EXCEPT !.kind = "count", !.mapper = UserMapper],
      [NoArgs EXCEPT !.kind = "sum", !.mapper = UserMapper, !.field = "v"],
      [NoArgs EXCEPT !.kind = "find", !.mapper = UserMapper, !.id = 1],
      [NoArgs EXCEPT !.kind = "create", !.mapper = UserMapper, !.props = [v |-> 1]],
      [NoArgs EXCEPT !.kind = "destroy", !.mapper = UserMapper, !.id = 1],
      [NoArgs EXCEPT !.kind = "update", !.mapper = UserMapper, !.id = 1, !.props = [v |-> 1]],
      [NoArgs EXCEPT !.kind = "updateMany", !.mapper = UserMapper,
                     !.records = <<[id |-> 1, v |-> 1]>>],
      [NoArgs EXCEPT !.kind = "count", !.mapper = ItemMapper] }

OffsetQuery == << <<"offset", 1>> >>
NoMatchQuery == << <<"where", << <<"v", << <<"==", 5>> >> >> >> >> >>

\* one invocation of each operation, and the queries that leave count and
\* sum without a row or without a value
Probes ==
    { [NoArgs EXCEPT !.kind = "count", !.mapper = UserMapper],
      [NoArgs EXCEPT !.kind = "count", !.mapper = UserMapper, !.query = OffsetQuery],
      [NoArgs EXCEPT !.kind = "count", !.mapper = ProfileMapper],
      [NoArgs EXCEPT !.kind = "sum", !.mapper = UserMapper, !.field = "v"],
      [NoArgs EXCEPT !.kind = "sum", !.mapper = UserMapper, !.field = "v",
                     !.query = NoMatchQuery],
      [NoArgs EXCEPT !.kind = "sum", !.mapper = UserMapper, !.field = "v",
                     !.query = OffsetQuery],
      [NoArgs EXCEPT !.kind = "find", !.mapper = UserMapper, !.id = 1],
      [NoArgs EXCEPT !.kind = "find", !.mapper = ItemMapper, !.id = 1],
      [NoArgs EXCEPT !.kind = "findAll", !.mapper = UserMapper],
      [NoArgs EXCEPT !.kind = "create", !.mapper = UserMapper, !.props = [v |-> 1]],
      [NoArgs EXCEPT !.kind = "createMany", !.mapper = UserMapper,
                     !.propsList = <<[id |-> 1, v |-> 1]>>],
      [NoArgs EXCEPT !.kind = "update", !.mapper = UserMapper, !.id = 1, !.props = [v |-> 1]],
      [NoArgs EXCEPT !.kind = "updateAll", !.mapper = UserMapper, !.props = [v |-> 1]],
      [NoArgs EXCEPT !.kind = "updateMany", !.mapper = UserMapper,
                     !.records = <<[id |-> 1, v |-> 1]>>],
      [NoArgs EXCEPT !.kind = "destroy", !.mapper = UserMapper, !.id = 1],
      [NoArgs EXCEPT !.kind = "destroyAll", !.mapper = UserMapper] }

\* ------------------------------------------- inputs of createTableSql
MaxProps == 2        \* schema properties of a generated mapper

FieldNames == {"id", "name", "email"}

StringDefault == [typeof |-> "string", text |-> "a"]
NumberDefault == [typeof |-> "number", text |-> "0"]

\* property schemas: every declared type, an undeclared and an unknown
\* type, and the constraint keys alone and together
FieldSchemas ==
    {[type |-> t] : t \in {"string", "number", "integer", "boolean", "object", "array", "date"}}
    \cup { [required |-> FALSE],
           [type |-> "string", required |-> TRUE],
           [type |-> "string", notNull |-> TRUE],
           [type |-> "string", notNull |-> FALSE, required |-> FALSE],
           [type |-> "string", unique |-> TRUE],
           [type |-> "string", default |-> StringDefault],
           [type |-> "integer", default |-> NumberDefault],
           [type |-> "string", required |-> TRUE, unique |-> TRUE, default |-> StringDefault],
           [type |-> "integer", notNull |-> TRUE, unique |-> TRUE, default |-> NumberDefault] }

\* schema.properties objects: up to MaxProps keys in declaration order
PropertyLists ==
    {l \in UNION {[1..n -> FieldNames \X FieldSchemas] : n \in 0..MaxProps} :
        \A i, j \in DOMAIN l : l[i][1] = l[j][1] => i = j}

\* the schema of the scenario: id, then a required name, then a unique email
ScenarioProperties ==
    << <<"id", [type |-> "integer"]>>,
       <<"name", [type |-> "string", required |-> TRUE]>>,
       <<"email", [type |-> "string", unique |-> TRUE]>> >>

SchemaMapper(idAttribute, properties) ==
    [name |-> <<"T">>, idAttribute |-> idAttribute, table |-> <<"t">>,
     schema |-> [properties |-> properties]]

\* mappers given to createTableSql: with a schema (the id attribute "id", or
\* none, which falls back to "_id"), with a schema that has no properties,
\* and with no schema
DdlMappers ==
    {SchemaMapper(a, l) : a \in {"id", ""}, l \in PropertyLists \cup {ScenarioProperties}}
    \cup { [name |-> <<"T">>, idAttribute |-> "id", table |-> <<"t">>,
            schema |-> [title |-> "T"]],
           ItemMapper }

\* --------------------------------------------------------------- state
VARIABLES
    adapter,      \* the adapter's own properties, filled in from the constructor params
    tableCache,   \* #tableCache
    seed,         \* the constructor's detached catalog task: "wait", "done", "failed"
    proc,         \* per caller: the operation in progress and where it is suspended
    net,          \* per caller and for the seed task: the HTTP request in flight
    d1,           \* the remote database: table name -> rows
    nops,         \* operations invoked so far
    createCalls,  \* history: CREATE TABLE requests issued, per table
    provisionFailed, \* history: the tables a CREATE TABLE call has failed for
    reported,     \* history: the table names the catalog query reported
    received,     \* history: per caller, what its last awaited HTTP call yielded
    ddl,          \* a createTableSql call and the remote table definitions
    qry           \* a toSql call: the objects in memory, the caller's query, the builder

vars == <<adapter, tableCache, seed, proc, net, d1, nops, createCalls, provisionFailed,
          reported, received, ddl, qry>>

NoResponse == <<>>

\* no createTableSql call and no toSql call of their own is under way
NoDdl == <<>>
NoQry == <<>>

Callers == Procs \cup {"seed"}

NoMessage == [state |-> "none", stmt |-> <<>>, http |-> <<>>]
Request(stmt) == [state |-> "sent", stmt |-> stmt, http |-> <<>>]

Idle ==
    [pc |-> "idle", op |-> NoArgs, method |-> "none", idx |-> 0,
     results |-> <<>>, metas |-> <<>>, meta |-> Meta(0, 0), ret |-> <<>>, log |-> <<>>,
     before |-> {}]

\* this.autocreateTables is truthy
Autocreate(self) == "autocreateTables" \in DOMAIN self /\ self.autocreateTables

\* (mutant) every record is looked up by the first record's id
CurIdFirst(pr) == IF pr.op.kind = "updateMany" THEN pr.op.records[1].id ELSE pr.op.id

\* the id and props of the _update call in progress
CurId(pr) == IF pr.op.kind = "updateMany" THEN pr.op.records[pr.idx].id ELSE pr.op.id
CurProps(pr) == IF pr.op.kind = "updateMany" THEN pr.op.records[pr.idx] ELSE pr.op.props

ById(table, id) == Where(knex(table), "id", "=", id)

\* the statement a method builds after ensureTable
DataStmt(pr) ==
    LET table == getTable(pr.op.mapper)
        m == pr.method
    IN CASE m = "count"      -> toSql([knex(table) EXCEPT !.method = "count"], pr.op.query)
         [] m = "create"     -> [knex(table) EXCEPT !.method = "insert", !.arg = <<pr.op.props>>]
         [] m = "createMany" -> [knex(table) EXCEPT !.method = "insert", !.arg = pr.op.propsList]
         [] m = "find"       -> [ById(table, IF pr.op.kind = "find" THEN pr.op.id ELSE CurId(pr))
                                    EXCEPT !.limit = <<1>>]
         [] m = "findAll"    -> toSql(knex(table), pr.op.query)
         [] m = "update"     -> [ById(table, CurId(pr))
                                    EXCEPT !.method = "update", !.arg = CurProps(pr)]
         [] m = "updateAll"  -> toSql([knex(table) EXCEPT !.method = "update",
                                                          !.arg = pr.op.props], pr.op.query)
         [] m = "destroy"    -> [ById(table, pr.op.id) EXCEPT !.method = "delete"]
         [] m = "destroyAll" -> toSql([knex(table) EXCEPT !.method = "delete"], pr.op.query)
         [] m = "sum"        -> toSql([knex(table) EXCEPT !.method = "sum",
                                                          !.arg = pr.op.field], pr.op.query)

\* (mutant) the value is written into the text
ParameterInline(value) == ToString(value)

\* a value of the statement: a positional placeholder in the text
Parameter(value) == "?"

\* the text of one clause of the builder
WhereText(w) ==
    w.field \o " " \o w.op \o " "
    \o (IF w.op \in {"in", "not in"}
        THEN "(" \o Join([i \in DOMAIN w.value |-> Parameter(w.value[i])], ", ") \o ")"
        ELSE Parameter(w.value))

\* the values one clause of the builder binds
WhereBindings(w) == IF w.op \in {"in", "not in"} THEN w.value ELSE <<w.value>>

RECURSIVE Flatten(_)
Flatten(lists) == IF lists = <<>> THEN <<>> ELSE lists[1] \o Flatten(Tail(lists))

\* builder.toSQL() for the statements that carry a query: the text with a
\* placeholder per value, and the values in the order of their placeholders.
\* Identifiers are written without their quoting.
toSQL(builder) ==
    LET table == Text(builder.table)
        reads == builder.method \in {"select", "count", "sum"}
        columns == IF builder.method = "update" THEN SeqOfSet(DOMAIN builder.arg) ELSE <<>>
        head ==
            CASE builder.method = "select" -> "select * from " \o table
              [] builder.method = "count"  -> "select count(*) as count from " \o table
              [] builder.method = "sum"    ->
                   "select sum(" \o builder.arg \o ") as sum from " \o table
              [] builder.method = "update" ->
                   "update " \o table \o " set "
                   \o Join([i \in DOMAIN columns |->
                               columns[i] \o " = " \o Parameter(builder.arg[columns[i]])],
                           ", ")
              [] builder.method = "delete" -> "delete from " \o table
        where == IF builder.wheres = <<>> THEN ""
                 ELSE " where " \o Join([i \in DOMAIN builder.wheres |->
                                            WhereText(builder.wheres[i])], " and ")
        order == IF builder.orderBy = <<>> \/ ~reads THEN ""
                 ELSE " order by " \o Join([i \in DOMAIN builder.orderBy |->
                                               builder.orderBy[i][1] \o " "
                                               \o Text(builder.orderBy[i][2])], ", ")
        limit == IF builder.limit = <<>> \/ ~reads THEN ""
                 ELSE " limit " \o Parameter(builder.limit[1])
        offset == IF builder.offset = <<>> \/ ~reads THEN ""
                  ELSE " offset " \o Parameter(builder.offset[1])
    IN [sql |-> head \o where \o order \o limit \o offset,
        bindings |-> [i \in DOMAIN columns |-> builder.arg[columns[i]]]
                     \o Flatten([i \in DOMAIN builder.wheres |->
                                    WhereBindings(builder.wheres[i])])
                     \o (IF reads THEN builder.limit \o builder.offset ELSE <<>>)]

\* (mutant) no fallback for a falsy first operand
OrFirst(a, b) == a

\* a || b on message strings: the empty string is falsy, and so is
\* undefined, which <<>> stands for as well
Or(a, b) == IF a = <<>> THEN b ELSE a

\* resp.errors[0]?.message
FirstMessage(errors) ==
    IF errors = <<>> \/ "message" \notin DOMAIN errors[1] THEN <<>>
    ELSE errors[1].message

\* (mutant) a failed call yields an empty result instead of throwing
executeSQLSwallows(http) ==
    IF http.threw \/ ~http.data.success
    THEN [threw |-> FALSE, value |-> [results |-> <<>>, meta |-> Meta(0, 0)]]
    ELSE [threw |-> FALSE, value |-> http.data.result[1]]

\* (mutant) the result is rebuilt without the meta block
executeSQLDropsMeta(http) ==
    IF http.threw THEN [threw |-> TRUE, error |-> http.error]
    ELSE IF ~http.data.success
    THEN [threw |-> TRUE, error |-> [message |-> <<"Unknown error">>]]
    ELSE [threw |-> FALSE,
          value |-> [results |-> http.data.result[1].results, meta |-> Meta(0, 0)]]

\* HTTP + _executeSQL: what the awaited call yields for a transport outcome
executeSQL(http) ==
    IF http.threw THEN [threw |-> TRUE, error |-> http.error]
    ELSE IF ~http.data.success
    THEN [threw |-> TRUE,
          error |-> [message |-> Or(FirstMessage(http.data.errors), <<"Unknown error">>)]]
    ELSE [threw |-> FALSE, value |-> http.data.result[1]]

\* (mutant) no row is an empty object
FirstOrEmptyObject(results) == IF results = <<>> THEN <<>> ELSE results[1]

\* result.results?.[0]
FirstOrUndefined(results) == IF results = <<>> THEN Undefined ELSE results[1]

Returned(payload, meta) == [payload |-> payload, meta |-> meta]

\* (mutant) a missing value is reported as -1
FieldOrSentinel(row, field) == IF field \in DOMAIN row THEN row[field] ELSE -1

\* result.results?.[0]?.count || 0, and the same for sum
FieldOr0(row, field) == IF field \in DOMAIN row THEN row[field] ELSE 0

\* (mutant) the id is not written into props
AnnotateNever(props, idAttribute, id) == props

\* if (id) { props[mapper.idAttribute] = id }
Annotate(props, idAttribute, id) ==
    IF id # 0
    THEN [k \in DOMAIN props \cup {idAttribute} |-> IF k = idAttribute THEN id ELSE props[k]]
    ELSE props

\* (mutant) updateAll hands back no metadata
UpdateAllReturnNoMeta(result) == Returned(<<>>, Meta(0, 0))

\* return [[], result.meta]
UpdateAllReturn(result) == Returned(<<>>, result.meta)

\* (mutant) update hands back the metadata of its follow-up SELECT
UpdateReturnOfFind(record, result, found) == Returned(record, found.meta)

\* _update: return [record, result.meta], result being the UPDATE's and
\* record the first row of the follow-up _find
UpdateReturn(record, result, found) == Returned(record, result.meta)

\* (mutant) the rejection carries the metadata the method holds
RejectionWithMeta(pr, error) == [error |-> error, meta |-> pr.meta]

\* what the caller gets when _executeSQL throws inside a method: no method
\* has a catch, the promise is rejected with the error
Rejection(pr, error) == [error |-> error]

\* (mutant) destroy hands back the result rows
DestroyReturnRows(result) == Returned(result.results, result.meta)

\* return [undefined, result.meta]
DestroyReturn(result) == Returned(Undefined, result.meta)

\* the [payload, meta] a single-statement method returns for a result
Reshape(pr, result) ==
    LET m == pr.method
        row == FirstOrUndefined(result.results)
    IN CASE m = "count" -> Returned(FieldOr0(row, "count"), result.meta)
         [] m = "sum"   -> Returned(FieldOr0(row, "sum"), result.meta)
         [] m = "create" ->
              Returned(Annotate(pr.op.props, pr.op.mapper.idAttribute,
                                result.meta.last_row_id),
                       result.meta)
         [] m = "createMany" -> Returned(pr.op.propsList, result.meta)
         [] m = "find"       -> Returned(row, result.meta)
         [] m = "findAll"    -> Returned(result.results, result.meta)
         [] m = "updateAll"  -> UpdateAllReturn(result)
         [] m \in {"destroy", "destroyAll"} -> DestroyReturn(result)

\* ------------------------------------------------------------ ensureTable
\* (mutant) _ensureTable without the cache lookup
ensureTableUncached(cache, self, tableName) ==
    IF ~Autocreate(self) THEN "notfound" ELSE "create"

\* (mutant) _ensureTable without the autocreateTables check
ensureTableUnchecked(cache, self, tableName) ==
    IF tableName \in cache THEN "cached" ELSE "create"

\* (mutant) _ensureTable takes every table for a cached one
ensureTableSkips(cache, self, tableName) == "cached"

\* the branch _ensureTable takes for a resolved table name
ensureTable(cache, self, tableName) ==
    IF tableName \in cache THEN "cached"
    ELSE IF ~Autocreate(self) THEN "notfound"
    ELSE "create"

\* (mutant) the successful CREATE TABLE is not recorded
CacheAddForgotten(cache, tableName) == cache

\* this.#tableCache.add(tableName) after the awaited CREATE TABLE
CacheAdd(cache, tableName) == cache \cup {tableName}

\* (mutant) the table is recorded although its CREATE TABLE failed
CacheOnFailureAdds(cache, tableName) == cache \cup {tableName}

\* (mutant) a failed provisioning call evicts the table
CacheOnFailureDrops(cache, tableName) == cache \ {tableName}

\* the cache after a failed provisioning call: the throw skips the add
CacheOnFailure(cache, tableName) == cache

\* new Error(Table ${tableName} not found)
NotFound(tableName) == [message |-> <<"Table", tableName, "not found">>]

\* history: the statement a method hands to _executeSQL joins the log of the
\* operation; Settle records how the call ended
Logged(pr, stmt) ==
    [pr EXCEPT !.log = Append(@, [stmt |-> stmt, status |-> "sent"])]

Settle(log, status) == [log EXCEPT ![Len(log)].status = status]

\* (mutant) the method goes on to its statement without _ensureTable
EnterMethodUnensured(p, pr) ==
    /\ proc' = [proc EXCEPT ![p] = [pr EXCEPT !.pc = "ensured"]]
    /\ net' = [net EXCEPT ![p] = NoMessage]
    /\ UNCHANGED createCalls

\* Entering count, create, ..., _update or _find: the method runs _ensureTable
\* up to its first await.
EnterMethod(p, pr) ==
    LET tableName == getTable(pr.op.mapper)
        out == ensureTable(tableCache, adapter, tableName)
    IN /\ proc' = [proc EXCEPT ![p] =
                    CASE out = "cached"   -> [pr EXCEPT !.pc = "ensured"]
                      [] out = "notfound" -> [pr EXCEPT !.pc = "rejected",
                                                        !.ret = [error |-> NotFound(tableName)]]
                      [] out = "create"   -> Logged([pr EXCEPT !.pc = "create"],
                                                    createTableSql(pr.op.mapper, tableName))]
       /\ net' = [net EXCEPT ![p] =
                    IF out = "create"
                    THEN Request(createTableSql(pr.op.mapper, tableName)) ELSE NoMessage]
       /\ createCalls' = IF out = "create"
                         THEN [createCalls EXCEPT ![tableName] = @ + 1] ELSE createCalls

\* (mutant) the loop skips every other record
NextIndexSkips(idx) == idx + 2

\* the record updateMany handles after the one at index idx
NextIndex(idx) == idx + 1

\* (mutant) the failed operation's table is put back as the operation found it
UnwindRestores(db, pr) ==
    IF getTable(pr.op.mapper) \in DOMAIN db /\ pr.op.kind = "updateMany"
    THEN [db EXCEPT ![getTable(pr.op.mapper)] = pr.before] ELSE db

\* the database after an exception leaves the method (and updateMany's
\* loop): there is no catch, nothing is undone
Unwind(db, pr) == db

\* (mutant) the loop leaves out the last record
LoopOrReturnEarly(p, pr) ==
    IF pr.idx >= Len(pr.op.records)
    THEN /\ proc' = [proc EXCEPT ![p] =
                      [pr EXCEPT !.pc = "done", !.method = "updateMany",
                                 !.ret = Returned(pr.results, [updates |-> pr.metas])]]
         /\ net' = [net EXCEPT ![p] = NoMessage]
         /\ UNCHANGED createCalls
    ELSE EnterMethod(p, [pr EXCEPT !.method = "update"])

\* updateMany's for-of loop at index pr.idx: the next _update, or the return
LoopOrReturn(p, pr) ==
    IF pr.idx > Len(pr.op.records)
    THEN /\ proc' = [proc EXCEPT ![p] =
                      [pr EXCEPT !.pc = "done", !.method = "updateMany",
                                 !.ret = Returned(pr.results, [updates |-> pr.metas])]]
         /\ net' = [net EXCEPT ![p] = NoMessage]
         /\ UNCHANGED createCalls
    ELSE EnterMethod(p, [pr EXCEPT !.method = "update"])

\* history: the rows of the mapper's table, none if the table does not exist
RowsOf(db, mapper) ==
    IF getTable(mapper) \in DOMAIN db THEN db[getTable(mapper)] ELSE {}

\* ---------------------------------------------------------------- actions
\* A caller invokes one of the eleven operations.
Invoke(p, o) ==
    /\ proc[p].pc = "idle"
    /\ nops < MaxOps
    /\ nops' = nops + 1
    /\ IF o.kind = "updateMany"
       THEN LoopOrReturn(p, [Idle EXCEPT !.op = o, !.idx = 1, !.before = RowsOf(d1, o.mapper)])
       ELSE EnterMethod(p, [Idle EXCEPT !.op = o, !.method = o.kind, !.idx = 1])
    /\ UNCHANGED <<adapter, tableCache, seed, d1, provisionFailed, reported, received,
                   ddl, qry>>

Outcomes == {"ok", "error", "unknown", "blank", "network"}

\* the outcomes the endpoint is given in the specifications below
Answers == {"ok", "error", "network"}

\* what fetch + response.json() give the HTTP method
Http(outcome, reply) ==
    CASE outcome = "ok"      -> [threw |-> FALSE, data |-> Envelope(reply)]
      [] outcome = "error"   -> [threw |-> FALSE, data |-> Envelope(SqlError(reply.db))]
      [] outcome = "unknown" -> [threw |-> FALSE,
                                 data |-> [success |-> FALSE, result |-> <<>>, errors |-> <<>>]]
      [] outcome = "blank"   -> [threw |-> FALSE,
                                 data |-> [success |-> FALSE, result |-> <<>>,
                                           errors |-> <<[message |-> <<>>]>>]]
      [] outcome = "network" -> [threw |-> TRUE, error |-> [message |-> <<"Network error">>]]

\* The endpoint handles the request of caller c: it runs the statement
\* (outcome "ok"; the statement itself may still fail), refuses it, or the
\* transport fails. A step of the endpoint reads and writes the database
\* only, and so commutes with every step of another caller: it is taken
\* together with the resumption of the caller that awaits it.
Answer(c, outcome) ==
    LET reply == Execute(d1, net[c].stmt)
    IN [http |-> Http(outcome, reply),
        db |-> IF outcome = "ok" THEN reply.db ELSE d1]

\* (mutant) the catalog rows are dropped
SeedCacheDropped(cache, resp) == cache

\* (mutant) the seeding task adds a name the catalog did not report
SeedCacheGuesses(cache, resp) == cache \cup {x.name : x \in Range(resp.results)} \cup {user}

\* resp?.results?.map(x => x.name).forEach((x) => this.#tableCache.add(x))
SeedCache(cache, resp) == cache \cup {x.name : x \in Range(resp.results)}

\* The constructor's detached task resumes with the catalog rows.
SeedRecv(outcome) ==
    /\ seed = "wait"
    /\ net["seed"].state = "sent"
    /\ LET a == Answer("seed", outcome)
           r == executeSQL(a.http)
       IN /\ d1' = a.db
          /\ IF r.threw
             THEN /\ seed' = "failed"
                  /\ UNCHANGED <<tableCache, reported>>
             ELSE /\ seed' = "done"
                  /\ tableCache' = SeedCache(tableCache, r.value)
                  /\ reported' = {x.name : x \in Range(r.value.results)}
    /\ net' = [net EXCEPT !["seed"] = NoMessage]
    /\ UNCHANGED <<adapter, proc, nops, createCalls, provisionFailed, received, ddl, qry>>

\* _ensureTable resumes after its CREATE TABLE call.
RecvCreate(p, outcome) ==
    /\ proc[p].pc = "create"
    /\ net[p].state = "sent"
    /\ LET a == Answer(p, outcome)
           r == executeSQL(a.http)
           tableName == getTable(proc[p].op.mapper)
       IN /\ d1' = a.db
          /\ IF r.threw
             THEN /\ proc' = [proc EXCEPT ![p].pc = "rejected",
                                          ![p].ret = [error |-> r.error],
                                          ![p].log = Settle(@, "failed")]
                  /\ tableCache' = CacheOnFailure(tableCache, tableName)
                  /\ provisionFailed' = provisionFailed \cup {tableName}
             ELSE /\ proc' = [proc EXCEPT ![p].pc = "ensured", ![p].log = Settle(@, "ok")]
                  /\ tableCache' = CacheAdd(tableCache, tableName)
                  /\ UNCHANGED provisionFailed
    /\ net' = [net EXCEPT ![p] = NoMessage]
    /\ received' = [received EXCEPT ![p] = Answer(p, outcome).http]
    /\ UNCHANGED <<adapter, seed, nops, createCalls, reported, ddl, qry>>

\* The method resumes after await this._ensureTable(mapper), builds its
\* statement and calls _executeSQL.
Issue(p) ==
    /\ proc[p].pc = "ensured"
    /\ proc' = [proc EXCEPT ![p] = Logged([proc[p] EXCEPT !.pc = "exec"], DataStmt(proc[p]))]
    /\ net' = [net EXCEPT ![p] = Request(DataStmt(proc[p]))]
    /\ UNCHANGED <<adapter, tableCache, seed, d1, nops, createCalls, provisionFailed, reported,
                   received, ddl, qry>>

\* The method resumes after its statement's _executeSQL.
RecvExec(p, outcome) ==
    /\ proc[p].pc = "exec"
    /\ net[p].state = "sent"
    /\ LET a == Answer(p, outcome)
           r == executeSQL(a.http)
           pr == proc[p]
       IN /\ d1' = IF r.threw THEN Unwind(a.db, pr) ELSE a.db
          /\ IF r.threw
             THEN /\ proc' = [proc EXCEPT ![p].pc = "rejected",
                                          ![p].ret = Rejection(pr, r.error),
                                          ![p].log = Settle(@, "failed")]
                  /\ net' = [net EXCEPT ![p] = NoMessage]
                  /\ UNCHANGED createCalls
             ELSE LET ok == [pr EXCEPT !.log = Settle(@, "ok")]
                      record == FirstOrUndefined(r.value.results)
                  IN CASE pr.method = "update" ->
                            \* const [record] = await this._find(mapper, id, opts)
                            EnterMethod(p, [ok EXCEPT !.meta = r.value.meta,
                                                      !.method = "find"])
                       [] pr.method = "find" /\ pr.op.kind = "update" ->
                            /\ proc' = [proc EXCEPT ![p] =
                                          [ok EXCEPT !.pc = "done", !.method = "update",
                                                     !.ret = UpdateReturn(record, [meta |-> pr.meta],
                                                                          r.value)]]
                            /\ net' = [net EXCEPT ![p] = NoMessage]
                            /\ UNCHANGED createCalls
                       [] pr.method = "find" /\ pr.op.kind = "updateMany" ->
                            \* const [record, meta] = await this._update(...)
                            LET ret == UpdateReturn(record, [meta |-> pr.meta], r.value)
                            IN LoopOrReturn(p, [ok EXCEPT !.results = Append(@, ret.payload),
                                                          !.metas = Append(@, ret.meta),
                                                          !.idx = NextIndex(@)])
                       [] OTHER ->
                            /\ proc' = [proc EXCEPT ![p] =
                                          [ok EXCEPT !.pc = "done",
                                                     !.ret = Reshape(pr, r.value)]]
                            /\ net' = [net EXCEPT ![p] = NoMessage]
                            /\ UNCHANGED createCalls
    /\ received' = [received EXCEPT ![p] = Answer(p, outcome).http]
    /\ UNCHANGED <<adapter, tableCache, seed, nops, provisionFailed, reported, ddl, qry>>

\* The caller takes the settled promise; it may invoke another operation.
Return(p) ==
    /\ proc[p].pc \in {"done", "rejected"}
    /\ proc' = [proc EXCEPT ![p] = Idle]
    /\ received' = [received EXCEPT ![p] = NoResponse]
    /\ UNCHANGED <<adapter, tableCache, seed, net, d1, nops, createCalls, provisionFailed, reported,
                   ddl, qry>>

\* ------------------------------------------------------- specifications
InitialRows == {[id |-> 1, v |-> 0], [id |-> 2, v |-> 1]}

\* The state after new CloudflareAdapter(params) returns: the cache is
\* empty and the catalog query is in flight. The database holds no table,
\* or the user table.
Init ==
    /\ adapter \in ParamsSet
    /\ tableCache = {}
    /\ seed = "wait"
    /\ proc = [p \in Procs |-> Idle]
    /\ net = [c \in Callers |->
                IF c = "seed" THEN Request([method |-> "catalog"]) ELSE NoMessage]
    /\ d1 \in {[t \in S |-> InitialRows] : S \in {{}, {user}}}
    /\ nops = 0
    /\ createCalls = [t \in TableNames |-> 0]
    /\ provisionFailed = {}
    /\ reported = {}
    /\ received = [p \in Procs |-> NoResponse]
    /\ ddl = NoDdl
    /\ qry = NoQry

\* a suspended task resumes, its call answered with one of the given outcomes
ResumeWith(outcomes) ==
    \/ \E outcome \in outcomes : SeedRecv(outcome)
    \/ \E p \in Procs, outcome \in outcomes : RecvCreate(p, outcome)
    \/ \E p \in Procs : Issue(p)
    \/ \E p \in Procs, outcome \in outcomes : RecvExec(p, outcome)
    \/ \E p \in Procs : Return(p)

Resume == ResumeWith(Answers)

\* operations of several callers overlap
Next ==
    \/ \E p \in Procs, o \in Overlapping : Invoke(p, o)
    \/ Resume

Spec == Init /\ [][Next]_vars

\* a series of operations: one is invoked when the one before has settled
NextSeq ==
    \/ \E p \in Procs, o \in Operations :
          /\ \A q \in Procs : proc[q].pc = "idle"
          /\ Invoke(p, o)
    \/ Resume

SpecSeq == Init /\ [][NextSeq]_vars

\* one operation at a time, of the set Probes, against an endpoint that
\* answers with every kind of envelope
NextProbe ==
    \/ \E p \in Procs, o \in Probes :
          /\ \A q \in Procs : proc[q].pc = "idle"
          /\ Invoke(p, o)
    \/ ResumeWith(Outcomes)

SpecProbe == Init /\ [][NextProbe]_vars

\* ----------------------------------------- the host and the seeding task
\* The constructor's task is an async function called and left alone: no
\* await, no catch, no then. When its _executeSQL throws, the promise of the
\* task is rejected with no handler. What follows is the host's: Node (15
\* and later, by default) raises the rejection as an uncaught exception and
\* the process exits; a host that only reports it lets the program run on,
\* which is the step of SeedRecv that sets seed to "failed".
HostRunning == seed # "aborted"

\* the catalog query fails and the host ends the process: every pending
\* operation stays where it is, and no further step is taken
HostTerminates(outcome) ==
    /\ seed = "wait"
    /\ net["seed"].state = "sent"
    /\ executeSQL(Answer("seed", outcome).http).threw
    /\ seed' = "aborted"
    /\ net' = [net EXCEPT !["seed"] = NoMessage]
    /\ UNCHANGED <<adapter, tableCache, proc, d1, nops, createCalls, provisionFailed,
                   reported, received, ddl, qry>>

NextHost ==
    \/ HostRunning /\ Next
    \/ \E outcome \in Answers : HostTerminates(outcome)

\* the seeding task takes the answer to its catalog query
SeedStep ==
    \E outcome \in Answers : (HostRunning /\ SeedRecv(outcome)) \/ HostTerminates(outcome)

\* caller p's operation takes its next step: the answer to the call it
\* awaits, or the continuation after _ensureTable
StepOf(p) ==
    /\ HostRunning
    /\ \/ \E outcome \in Answers : RecvCreate(p, outcome)
       \/ Issue(p)
       \/ \E outcome \in Answers : RecvExec(p, outcome)

\* StepOf(p) is enabled: the operation is under way (it then awaits a call
\* that is in flight, or its continuation is ready) and the process runs
Ready(p) == HostRunning /\ proc[p].pc \in {"create", "ensured", "exec"}

\* every remote call is answered in the end, and a continuation that is
\* ready runs: weak fairness of the seeding task's step and of each
\* caller's StepOf, the latter with its enabling condition written out
Responsive ==
    /\ WF_vars(SeedStep)
    /\ \A p \in Procs : []<>(~Ready(p)) \/ []<><<StepOf(p)>>_vars

SpecHost == Init /\ [][NextHost]_vars /\ Responsive

\* ------------------------------------------- createTableSql on its own
MaxApply == 2        \* times the statement of one mapper is compiled and applied

\* everything of the adapter but the remote rows
adapterVars == <<adapter, tableCache, seed, proc, net, nops, createCalls, provisionFailed,
                 reported, received>>

\* the adapter at rest: constructed, the catalog query answered, no call made
AtRest ==
    /\ adapter = [token |-> "token", autocreateTables |-> TRUE]
    /\ tableCache = {}
    /\ seed = "done"
    /\ proc = [p \in Procs |-> Idle]
    /\ net = [c \in Callers |-> NoMessage]
    /\ nops = 0
    /\ createCalls = [t \in TableNames |-> 0]
    /\ provisionFailed = {}
    /\ reported = {}
    /\ received = [p \in Procs |-> NoResponse]

\* the columns of a table that was created before, by other means
LegacyColumns == << <<"id", "INTEGER", "PRIMARY KEY AUTOINCREMENT">>, <<"v", "INTEGER">> >>

\* A mapper of DdlMappers is about to be compiled; the remote database has
\* no table, or already has the mapper's table with rows in it.
InitDdl ==
    /\ AtRest
    /\ qry = NoQry
    /\ d1 \in {[t \in S |-> InitialRows] : S \in {{}, {<<"t">>}}}
    /\ \E m \in DdlMappers :
          ddl = [pc |-> "start", mapper |-> m, table |-> getTable(m), stmt |-> <<>>,
                 compiled |-> <<>>, applied |-> 0, ok |-> TRUE,
                 catalog |-> [t \in DOMAIN d1 |-> LegacyColumns],
                 before |-> <<>>]

\* const createSQL = createTableSql(mapper, tableName)
DdlCompile ==
    /\ ddl.pc \in {"start", "applied"}
    /\ ddl.applied < MaxApply
    /\ LET createSQL == createTableSql(ddl.mapper, ddl.table)
       IN ddl' = [ddl EXCEPT !.pc = "compiled", !.stmt = createSQL,
                             !.compiled = Append(@, createSQL)]
    /\ UNCHANGED <<adapterVars, d1, qry>>

\* the table definitions after the database has run a CREATE TABLE statement
Define(catalog, db, stmt) ==
    IF stmt.table \in DOMAIN db THEN catalog
    ELSE [t \in DOMAIN db \cup {stmt.table} |->
            IF t \in DOMAIN db THEN catalog[t] ELSE stmt.columns]

\* the database runs the compiled statement
DdlApply ==
    /\ ddl.pc = "compiled"
    /\ LET reply == Execute(d1, ddl.stmt)
       IN /\ d1' = reply.db
          /\ ddl' = [ddl EXCEPT !.pc = "applied", !.applied = @ + 1, !.ok = reply.ok,
                                !.catalog = IF reply.ok THEN Define(@, d1, ddl.stmt) ELSE @,
                                !.before = [db |-> d1, catalog |-> ddl.catalog]]
    /\ UNCHANGED <<adapterVars, qry>>

\* a row is written to the table between two applications
DdlInsert ==
    /\ ddl.pc = "applied"
    /\ ddl.table \in DOMAIN d1
    /\ d1[ddl.table] = {}
    /\ d1' = Execute(d1, [knex(ddl.table) EXCEPT !.method = "insert",
                                                   !.arg = <<[v |-> 1]>>]).db
    /\ UNCHANGED <<adapterVars, ddl, qry>>

NextDdl == DdlCompile \/ DdlApply \/ DdlInsert

SpecDdl == InitDdl /\ [][NextDdl]_vars

\* ---------------------------------------------------- toSql on its own
MaxPage == 2         \* the largest limit and offset of a generated query

PageVals == 0..MaxPage

\* queries whose only keys are limit and/or offset, in both key orders
PageQueries ==
    {<< <<"limit", l>> >> : l \in PageVals}
    \cup {<< <<"offset", o>> >> : o \in PageVals}
    \cup {<< <<"limit", l>>, <<"offset", o>> >> : l \in PageVals, o \in PageVals}
    \cup {<< <<"offset", o>>, <<"limit", l>> >> : l \in PageVals, o \in PageVals}

Desc == <<"D","E","S","C">>
Asc == <<"A","S","C">>

\* queries whose nested where carries limit, offset or orderBy
NestedPageQueries ==
    { << <<"limit", 1>>, <<"where", << <<"limit", 2>> >> >> >>,
      << <<"where", << <<"limit", 1>> >> >> >>,
      << <<"offset", 1>>, <<"where", << <<"offset", 2>> >> >> >>,
      << <<"where", << <<"offset", 1>> >> >> >>,
      << <<"orderBy", << <<"age", Desc>> >> >>,
         <<"where", << <<"orderBy", << <<"v", Asc>> >> >> >> >> >>,
      << <<"where", << <<"orderBy", << <<"age", Desc>> >> >>,
                      <<"v", << <<"==", 1>> >> >> >> >> >>,
      << <<"limit", 1>>, <<"orderBy", << <<"age", Desc>> >> >>,
         <<"where", << <<"age", << <<">", 17>> >> >> >> >> >> }

CompareOps == {"==", "===", "!=", "!==", ">", ">=", "<", "<="}
SetOps == {"in", "contains", "notIn", "notContains"}

\* one operator on one field, every operator; "like" is not an operator of toSql
OperatorQueries ==
    {<< <<"age", << <<op, x>> >> >> >> : op \in CompareOps \cup {"like"}, x \in {18, 64}}
    \cup {<< <<"age", << <<op, <<18, 65>> >> >> >> >> : op \in SetOps}
    \cup {<< <<"where", << <<"v", << <<op, 1>> >> >> >> >> >> : op \in CompareOps}

\* several operators on a field, several fields, and predicates at the top
\* level and in where objects one and two levels down
PredicateQueries ==
    { << <<"age", << <<">=", 18>>, <<"<", 65>> >> >> >>,
      << <<"v", << <<"==", 1>> >> >>, <<"age", << <<">", 17>>, <<"!=", 64>> >> >> >>,
      << <<"v", << <<"==", 1>> >> >>, <<"where", << <<"age", << <<"<", 65>> >> >> >> >> >>,
      << <<"where", << <<"where", << <<"v", << <<"==", 1>> >> >> >> >>,
                      <<"age", << <<">=", 18>> >> >> >> >>,
         <<"age", << <<"in", <<18, 64, 65>> >>, <<"like", 1>> >> >> >> }

CompileQueries ==
    {<<>>} \cup PageQueries \cup NestedPageQueries \cup OperatorQueries \cup PredicateQueries

\* the rows of the table the compiled statements run against
QueryRows ==
    { [id |-> 1, v |-> 0, age |-> 17], [id |-> 2, v |-> 1, age |-> 18],
      [id |-> 3, v |-> 1, age |-> 64], [id |-> 4, v |-> 0, age |-> 65] }

\* the operations that compile a query
Compiling == {"count", "findAll", "updateAll", "destroyAll", "sum"}

\* An operation of Compiling is about to be called with a query of
\* CompileQueries, which the caller holds as an object, or with no query.
InitQuery ==
    /\ AtRest
    /\ ddl = NoDdl
    /\ d1 = [t \in {<<"t">>} |-> QueryRows]
    /\ \E k \in Compiling, q \in CompileQueries, given \in BOOLEAN :
          LET object == Alloc(<<>>, q)
          IN qry = [pc |-> "start", kind |-> k,
                    heap |-> IF given THEN object.heap ELSE <<>>,
                    caller |-> IF given THEN object.ref ELSE 0,
                    before |-> IF given THEN object.heap ELSE <<>>,
                    builder |-> <<>>, sent |-> [sql |-> "", bindings |-> <<>>],
                    results |-> <<>>]

\* query || {}
QueryOrEmpty(heap, a) == IF a = 0 THEN Alloc(heap, <<>>) ELSE [heap |-> heap, ref |-> a]

\* the operation builds its statement: knex(table)..., then toSql(builder,
\* query || {}), and hands builder.toSQL() to _executeSQL
QryCompile ==
    /\ qry.pc = "start"
    /\ LET arg == QueryOrEmpty(qry.heap, qry.caller)
           call == [Idle EXCEPT !.method = qry.kind,
                                !.op = [NoArgs EXCEPT !.kind = qry.kind, !.mapper = ItemMapper,
                                                      !.query = Value(arg.heap, arg.ref),
                                                      !.props = [v |-> 1], !.field = "v"]]
       IN qry' = [qry EXCEPT !.pc = "compiled",
                             !.builder = DataStmt(call),
                             !.sent = toSQL(DataStmt(call)),
                             !.heap = toSqlObjects(arg.heap, arg.ref)]
    /\ UNCHANGED <<adapterVars, d1, ddl>>

\* the database runs the compiled statement
QryRun ==
    /\ qry.pc = "compiled"
    /\ LET reply == Execute(d1, qry.builder)
       IN /\ d1' = reply.db
          /\ qry' = [qry EXCEPT !.pc = "ran", !.results = reply.results]
    /\ UNCHANGED <<adapterVars, ddl>>

NextQuery == QryCompile \/ QryRun

SpecQuery == InitQuery /\ [][NextQuery]_vars


\* ================================================================ claims
TableOf(p) == getTable(proc[p].op.mapper)

\* caller p invokes an operation in this step
Invoked(p) == proc[p].pc = "idle" /\ proc'[p].pc # "idle"

\* the table of the operation p invokes in this step
Invoking(p) == getTable(proc'[p].op.mapper)

EmptyUpdateMany(o) == o.kind = "updateMany" /\ o.records = <<>>

RemoteErrors ==
    { [message |-> <<"SQL error">>], [message |-> <<"Unknown error">>],
      [message |-> <<"Network error">>] }

IsCreate(stmt) == stmt.method = "create"

C1_Step(p) ==
    IF EmptyUpdateMany(proc'[p].op)
    THEN createCalls' = createCalls /\ net' = net /\ tableCache' = tableCache
    ELSE IF Invoking(p) \notin tableCache
    THEN createCalls[Invoking(p)] = 0 /\ createCalls'[Invoking(p)] = 1
    ELSE createCalls' = createCalls

C2_AutocreateByDefault ==
    "autocreateTables" \notin DOMAIN adapter
    => \A p \in Procs :
          proc[p].pc = "rejected" => proc[p].ret.error # NotFound(TableOf(p))

\* C2 (what the code does): without an autocreateTables setting the flag is
\* undefined, and an operation whose ensureTable finds the table uncached is
\* rejected with table-not-found, without a request.
C2_AbsentMeansDisabled ==
    [][\A p \in Procs :
        (/\ Invoked(p) /\ ~EmptyUpdateMany(proc'[p].op)
         /\ "autocreateTables" \notin DOMAIN adapter /\ Invoking(p) \notin tableCache)
        => /\ proc'[p].pc = "rejected"
           /\ proc'[p].ret.error = NotFound(Invoking(p))
           /\ net'[p] = NoMessage]_vars

C2_Witness ==
    \E p \in Procs :
        /\ "autocreateTables" \notin DOMAIN adapter
        /\ proc[p].op.kind = "count"
        /\ proc[p].pc = "rejected"
        /\ proc[p].ret.error = NotFound(TableOf(p))

\* ---- C3
\* C3: with auto-creation disabled, ensureTable at the entry of an operation
\* on an uncached table fails with 'Table <name> not found', sends no
\* request and leaves the cache (and the database) unchanged.
C3_NotFoundNoCall ==
    [][\A p \in Procs :
        (/\ Invoked(p) /\ ~EmptyUpdateMany(proc'[p].op)
         /\ ~Autocreate(adapter) /\ Invoking(p) \notin tableCache)
        => /\ proc'[p].pc = "rejected"
           /\ proc'[p].ret = [error |-> NotFound(Invoking(p))]
           /\ proc'[p].log = <<>>
           /\ net' = net
           /\ createCalls' = createCalls
           /\ tableCache' = tableCache
           /\ d1' = d1]_vars

C3_Witness ==
    \E p \in Procs :
        /\ "autocreateTables" \in DOMAIN adapter /\ ~adapter.autocreateTables
        /\ proc[p].pc = "rejected"
        /\ proc[p].ret.error = NotFound(user)
        /\ user \notin tableCache
        /\ createCalls[user] = 0

\* ---- C4
\* C4: a failed provisioning call rejects the operation with the call's
\* error and leaves the cache as it was; the next ensureTable on that table,
\* still uncached, sends a new CREATE TABLE.
C4_NoNegativeCaching ==
    [][\A p \in Procs :
        /\ (proc[p].pc = "create" /\ proc'[p].pc = "rejected")
           => /\ tableCache' = tableCache
              /\ proc'[p].ret.error \in RemoteErrors
              /\ net'[p] = NoMessage
        /\ (/\ Invoked(p) /\ ~EmptyUpdateMany(proc'[p].op) /\ Autocreate(adapter)
            /\ Invoking(p) \in provisionFailed /\ Invoking(p) \notin tableCache)
           => /\ proc'[p].pc = "create"
              /\ net'[p] = Request(createTableSql(proc'[p].op.mapper, Invoking(p)))
              /\ createCalls'[Invoking(p)] = createCalls[Invoking(p)] + 1]_vars

\* the retry: a second CREATE TABLE for user is in flight after the first failed
C4_Witness ==
    \E p \in Procs :
        /\ proc[p].pc = "create" /\ TableOf(p) = user
        /\ user \in provisionFailed /\ user \notin tableCache
        /\ createCalls[user] = 2

\* ---- C5
\* the CREATE TABLE calls an operation in progress has issued
CreatesOf(p) == {i \in DOMAIN proc[p].log : IsCreate(proc[p].log[i].stmt)}

\* C5: with auto-creation on and operations overlapping, an operation issues
\* at most one CREATE TABLE; a CREATE TABLE that succeeds for a table that
\* already exists leaves the database as it was and the operation goes on to
\* its statement; no operation fails with table-not-found, and one that
\* fails does so with the error of its last remote call; the table is in
\* the cache once a CREATE TABLE for it has succeeded.
C5_DuplicateProvisioning ==
    /\ [](Autocreate(adapter) =>
            \A p \in Procs :
               /\ Cardinality(CreatesOf(p)) <= 1
               /\ (\E i \in CreatesOf(p) : proc[p].log[i].status = "ok")
                  => TableOf(p) \in tableCache
               /\ proc[p].pc = "rejected"
                  => /\ proc[p].ret.error \in RemoteErrors
                     /\ proc[p].log[Len(proc[p].log)].status = "failed"
               /\ proc[p].pc = "done"
                  => \A i \in DOMAIN proc[p].log : proc[p].log[i].status = "ok")
    /\ [][\A p \in Procs :
            (proc[p].pc = "create" /\ proc'[p].pc = "ensured")
            => /\ TableOf(p) \in DOMAIN d1'
               /\ \A t \in DOMAIN d1 : d1'[t] = d1[t]
               /\ TableOf(p) \in DOMAIN d1 => d1' = d1
               /\ proc'[p] = [proc[p] EXCEPT !.pc = "ensured", !.log = Settle(@, "ok")]]_vars

\* two overlapping operations both missed the cache and both CREATE TABLE
\* calls succeeded
C5_Witness ==
    /\ createCalls[user] = 2 /\ provisionFailed = {} /\ user \notin reported
    /\ \A p \in Procs :
          /\ TableOf(p) = user
          /\ \E i \in CreatesOf(p) : proc[p].log[i].status = "ok"
    /\ user \in tableCache

\* ---- C6
\* C6: operations run while the catalog query is still awaited; when it
\* completes, the cache holds every table name it reported (the tables of
\* the database). From then on no CREATE TABLE is issued for a reported
\* table. A CREATE TABLE issued before, for a table that exists, leaves the
\* database unchanged and the operation where the cache hit would have put it.
C6_Seeding ==
    /\ [](seed = "done" => reported \subseteq tableCache)
    /\ [][/\ (seed = "wait" /\ seed' = "done")
             => /\ reported' = DOMAIN d1
                /\ tableCache' = tableCache \cup reported'
          /\ seed = "done"
             => \A t \in reported : createCalls'[t] = createCalls[t]
          /\ \A p \in Procs :
                (/\ proc[p].pc = "create" /\ proc'[p].pc = "ensured"
                 /\ TableOf(p) \in DOMAIN d1)
                => /\ d1' = d1
                   /\ proc'[p].op = proc[p].op /\ proc'[p].method = proc[p].method
                   /\ proc'[p].idx = proc[p].idx]_vars

\* the catalog query is answered while a redundant CREATE TABLE for the
\* existing table user is still in flight
C6_Witness ==
    /\ seed = "done" /\ user \in reported
    /\ \E p \in Procs :
          /\ proc[p].pc = "create" /\ TableOf(p) = user
          /\ net[p].state = "sent"

\* ---- C7
C7_Step(p) ==
    LET t == Invoking(p)
    IN IF t \in tableCache
       THEN /\ proc'[p].pc = "ensured" /\ proc'[p].log = <<>>
            /\ net' = net /\ createCalls' = createCalls
       ELSE IF ~Autocreate(adapter)
       THEN /\ proc'[p].pc = "rejected"
            /\ proc'[p].ret = [error |-> NotFound(t)]
            /\ proc'[p].log = <<>>
            /\ net' = net
       ELSE /\ proc'[p].pc = "create"
            /\ Len(proc'[p].log) = 1 /\ IsCreate(proc'[p].log[1].stmt)
            /\ net'[p].stmt = proc'[p].log[1].stmt

DataLog(p) ==
    LET log == proc[p].log
    IN IF log # <<>> /\ IsCreate(log[1].stmt) THEN Tail(log) ELSE log

UpdateOf(table, rec) ==
    [table |-> table, method |-> "update", arg |-> rec,
     wheres |-> <<[field |-> "id", op |-> "=", value |-> rec.id]>>,
     limit |-> <<>>, offset |-> <<>>, orderBy |-> <<>>]

SelectOf(table, id) ==
    [table |-> table, method |-> "select", arg |-> <<>>,
     wheres |-> <<[field |-> "id", op |-> "=", value |-> id]>>,
     limit |-> <<1>>, offset |-> <<>>, orderBy |-> <<>>]

\* C8: the requests of updateMany are, in order, the UPDATE of record 1, the
\* SELECT of record 1, the UPDATE of record 2, ...: each is issued when all
\* before it have completed successfully, and updateMany resolves after the
\* SELECT of the last record.
C8_OneAtATime ==
    \A p \in Procs :
        proc[p].op.kind = "updateMany" =>
            LET L == DataLog(p)
                recs == proc[p].op.records
                t == TableOf(p)
            IN /\ Len(L) <= 2 * Len(recs)
               /\ \A i \in DOMAIN L :
                     /\ L[i].stmt = IF i % 2 = 1 THEN UpdateOf(t, recs[(i + 1) \div 2])
                                    ELSE SelectOf(t, recs[i \div 2].id)
                     /\ i < Len(L) => L[i].status = "ok"
               /\ proc[p].pc = "done"
                  => /\ Len(L) = 2 * Len(recs)
                     /\ \A i \in DOMAIN L : L[i].status = "ok"
                     /\ Len(proc[p].ret.payload) = Len(recs)

\* the UPDATE of the second record is in flight after the first record's
\* UPDATE and SELECT completed
C8_Witness ==
    \E p \in Procs :
        /\ proc[p].op.kind = "updateMany"
        /\ Len(DataLog(p)) = 3
        /\ DataLog(p)[3].status = "sent"
        /\ proc[p].op.records[1] # proc[p].op.records[2]
        /\ net[p].stmt = UpdateOf(user, proc[p].op.records[2])
\* ---- C9
RECURSIVE AppliedPrefix(_, _, _)
\* the rows after the UPDATEs of the first n records
AppliedPrefix(rows, recs, n) ==
    IF n = 0 THEN rows
    ELSE {IF r.id = recs[n].id THEN UpdateRow(r, recs[n]) ELSE r :
            r \in AppliedPrefix(rows, recs, n - 1)}

\* the UPDATEs of an operation that completed
UpdatesDone(p) ==
    Cardinality({i \in DOMAIN proc[p].log :
                    proc[p].log[i].stmt.method = "update" /\ proc[p].log[i].status = "ok"})

\* C9: when a remote call of updateMany fails, updateMany rejects with the
\* error of that call and issues no further request; the table holds the
\* rows the operation found with exactly the completed UPDATEs applied.
C9_FailureStops ==
    /\ [](\A p \in Procs :
            proc[p].op.kind = "updateMany" =>
               /\ RowsOf(d1, proc[p].op.mapper)
                    = AppliedPrefix(proc[p].before, proc[p].op.records, UpdatesDone(p))
               /\ (proc[p].pc = "rejected" /\ proc[p].log # <<>>)
                  => /\ proc[p].log[Len(proc[p].log)].status = "failed"
                     /\ \A i \in 1..(Len(proc[p].log) - 1) : proc[p].log[i].status = "ok"
                     /\ proc[p].ret.error \in RemoteErrors
                     /\ net[p] = NoMessage)
    /\ [][\A p \in Procs :
            /\ (/\ proc[p].op.kind = "updateMany"
                /\ proc[p].pc \in {"create", "exec"} /\ proc'[p].pc = "rejected")
               => /\ \E o \in Answers :
                        LET r == executeSQL(Answer(p, o).http)
                        IN r.threw /\ proc'[p].ret = [error |-> r.error]
                  /\ proc'[p].log = Settle(proc[p].log, "failed")
                  /\ d1' = d1
            /\ proc[p].pc = "rejected"
               => /\ proc'[p] \in {proc[p], Idle}
                  /\ net'[p] = NoMessage]_vars

\* updateMany failed at its second record: the first record's update stays
C9_Witness ==
    \E p \in Procs :
        /\ proc[p].op.kind = "updateMany" /\ proc[p].pc = "rejected"
        /\ Len(proc[p].op.records) = 2
        /\ Len(DataLog(p)) \in {3, 4}
        /\ UpdatesDone(p) >= 1
        /\ RowsOf(d1, proc[p].op.mapper) # proc[p].before

\* ---- C10
\* C10 as stated: a successful update of an existing row returns the row as
\* the table holds it after the update.
C10_ReturnsStoredRow ==
    \A p \in Procs :
        (/\ proc[p].op.kind = "update" /\ proc[p].pc = "done"
         /\ proc[p].ret.meta.changes = 1)
        => /\ proc[p].ret.payload # Undefined
           /\ proc[p].ret.payload \in RowsOf(d1, proc[p].op.mapper)
           /\ \A k \in DOMAIN proc[p].op.props :
                 proc[p].ret.payload[k] = proc[p].op.props[k]

\* C10 (what the code does): update sends the UPDATE by id and then the
\* SELECT by the same id, and returns the first row of that SELECT with the
\* meta block of the UPDATE: no row when the update changed the id.
C10_ReturnsRowFoundById ==
    [][\A p \in Procs :
        (proc[p].op.kind = "update" /\ proc[p].pc = "exec" /\ proc'[p].pc = "done")
        => LET t == TableOf(p)
               found == Execute(d1, SelectOf(t, proc[p].op.id))
           IN /\ Len(DataLog(p)) = 2
              /\ DataLog(p)[1].stmt
                    = [UpdateOf(t, [id |-> proc[p].op.id]) EXCEPT !.arg = proc[p].op.props]
              /\ DataLog(p)[2].stmt = SelectOf(t, proc[p].op.id)
              /\ proc'[p].ret = Returned(FirstOrUndefined(found.results), proc[p].meta)]_vars

\* update(1, {id: 2, v: 1}) changed a row and returned no record
C10_Witness ==
    \E p \in Procs :
        /\ proc[p].op.kind = "update" /\ proc[p].pc = "done"
        /\ proc[p].ret.meta.changes = 1
        /\ proc[p].ret.payload = Undefined
        /\ [id |-> 2, v |-> 1] \in RowsOf(d1, proc[p].op.mapper)
\* ---- C11
\* the call of p that was answered last failed: in transport or by envelope
Failed(p) ==
    IF received[p] = NoResponse THEN FALSE
    ELSE IF received[p].threw THEN TRUE
    ELSE ~received[p].data.success

\* C11: an operation whose remote call fails, in transport or by its
\* envelope, is rejected at once: with the transport's own error when the
\* transport failed, without a further request (none for the failed
\* statement again, none for a later one), and it stays rejected until the
\* caller takes the rejection.
C11_NoRetryNoSuppress ==
    /\ [](\A p \in Procs :
            Failed(p) =>
               /\ proc[p].pc = "rejected"
               /\ net[p] = NoMessage
               /\ proc[p].log[Len(proc[p].log)].status = "failed"
               /\ proc[p].ret.error \in RemoteErrors
               /\ received[p].threw => proc[p].ret = [error |-> received[p].error])
    /\ [][\A p \in Procs :
            /\ (proc[p].pc \in {"create", "exec"} /\ proc'[p].pc = "rejected")
               => /\ Len(proc'[p].log) = Len(proc[p].log)
                  /\ proc'[p].log[Len(proc[p].log)].stmt = net[p].stmt
                  /\ createCalls' = createCalls
                  /\ net'[p] = NoMessage
            /\ proc[p].pc = "rejected"
               => /\ proc'[p] \in {proc[p], Idle}
                  /\ net'[p] = NoMessage]_vars

\* the UPDATE of an update failed in transport: the operation is rejected
\* with the transport's error and its SELECT is never sent
C11_Witness ==
    \E p \in Procs :
        /\ proc[p].op.kind = "update" /\ proc[p].pc = "rejected"
        /\ received[p] # NoResponse /\ received[p].threw
        /\ proc[p].ret.error = [message |-> <<"Network error">>]
        /\ Len(proc[p].log) = 1 /\ proc[p].log[1].stmt.method = "update"
\* ---- C12
\* the call of p that was answered last got an envelope with success false
Refused(p) ==
    IF received[p] = NoResponse THEN FALSE
    ELSE IF received[p].threw THEN FALSE
    ELSE ~received[p].data.success

\* C12 as stated: on an envelope with success false the error's message is
\* the message of the first entry of errors, or 'Unknown error' when errors
\* is empty.
C12_FirstMessageOriginal ==
    \A p \in Procs :
        Refused(p) =>
            /\ proc[p].pc = "rejected"
            /\ proc[p].ret.error.message =
                 IF received[p].data.errors = <<>> THEN <<"Unknown error">>
                 ELSE received[p].data.errors[1].message

\* C12 (amended): on an envelope with success false the call fails and
\* yields no result; the error's message is the message of the first entry
\* of errors when that is a non-empty string, and 'Unknown error' when
\* errors is empty or the first entry's message is empty.
C12_FirstMessageOrUnknown ==
    \A p \in Procs :
        Refused(p) =>
            /\ proc[p].pc = "rejected"
            /\ DOMAIN proc[p].ret = {"error"}
            /\ proc[p].ret.error.message =
                 IF received[p].data.errors = <<>> THEN <<"Unknown error">>
                 ELSE IF received[p].data.errors[1].message = <<>> THEN <<"Unknown error">>
                 ELSE received[p].data.errors[1].message

\* an envelope whose first error has an empty message
C12_Witness ==
    \E p \in Procs :
        /\ Refused(p)
        /\ received[p].data.errors = <<[message |-> <<>>]>>
        /\ proc[p].pc = "rejected"
        /\ proc[p].ret.error.message = <<"Unknown error">>
\* ---- C13
\* the call of p that was answered last got an envelope with success true
Granted(p) ==
    IF received[p] = NoResponse THEN FALSE
    ELSE IF received[p].threw THEN FALSE
    ELSE received[p].data.success

\* C13: on an envelope with success true the call does not fail, and what
\* the operation returns is built from the first element of the envelope's
\* result array as it came: findAll returns its results and meta, find its
\* first row and meta, every other single-statement operation its meta.
C13_FirstResult ==
    \A p \in Procs :
        Granted(p) =>
            /\ proc[p].pc # "rejected"
            /\ (proc[p].pc = "done" /\ proc[p].op.kind \notin {"update", "updateMany"})
               => LET first == received[p].data.result[1]
                  IN /\ proc[p].ret.meta = first.meta
                     /\ proc[p].op.kind = "findAll" => proc[p].ret.payload = first.results
                     /\ (proc[p].op.kind = "find" /\ first.results # <<>>)
                        => proc[p].ret.payload = first.results[1]

\* destroy returns the meta block of the envelope, which reports one change
C13_Witness ==
    \E p \in Procs :
        /\ Granted(p) /\ proc[p].pc = "done" /\ proc[p].op.kind = "destroy"
        /\ received[p].data.result[1].meta.changes = 1
        /\ proc[p].ret.meta = received[p].data.result[1].meta
\* ---- C14
\* C14: a successful create whose response reports a last_row_id sends the
\* INSERT and nothing else, and returns the input props with the id
\* attribute set to that last_row_id, together with the response's meta.
C14_CreateAnnotates ==
    \A p \in Procs :
        (proc[p].op.kind = "create" /\ proc[p].pc = "done") =>
            LET meta == received[p].data.result[1].meta
                props == proc[p].op.props
                record == proc[p].ret.payload
            IN /\ Len(DataLog(p)) = 1 /\ DataLog(p)[1].stmt.method = "insert"
               /\ proc[p].ret.meta = meta
               /\ meta.last_row_id # 0
                  => /\ DOMAIN record = DOMAIN props \cup {proc[p].op.mapper.idAttribute}
                     /\ record[proc[p].op.mapper.idAttribute] = meta.last_row_id
                     /\ \A k \in DOMAIN props \ {proc[p].op.mapper.idAttribute} :
                           record[k] = props[k]

\* create({v: 1}) returned {v: 1, id: <last_row_id>}
C14_Witness ==
    \E p \in Procs :
        /\ proc[p].op.kind = "create" /\ proc[p].pc = "done"
        /\ proc[p].op.props = [v |-> 1]
        /\ proc[p].ret.meta.last_row_id # 0
        /\ proc[p].ret.payload = [id |-> proc[p].ret.meta.last_row_id, v |-> 1]
\* ---- C15
\* C15: find resolves whenever its SELECT succeeded: with the first row of
\* the results (the row of the table with that id) when there is one, and
\* with undefined as record when the results are empty (no row has that id).
C15_FindFirstOrUndefined ==
    \A p \in Procs :
        (proc[p].op.kind = "find" /\ Granted(p) /\ proc[p].pc \in {"done", "rejected"}) =>
            LET results == received[p].data.result[1].results
                rows == RowsOf(d1, proc[p].op.mapper)
            IN /\ proc[p].pc = "done"
               /\ IF results # <<>>
                  THEN /\ proc[p].ret.payload = results[1]
                       /\ results[1] \in rows /\ results[1].id = proc[p].op.id
                  ELSE /\ proc[p].ret.payload = Undefined
                       /\ \A r \in rows : r.id # proc[p].op.id

\* find by an id no row has: no record, no error
C15_Witness ==
    \E p \in Procs :
        /\ proc[p].op.kind = "find" /\ proc[p].pc = "done" /\ Granted(p)
        /\ received[p].data.result[1].results = <<>>
        /\ proc[p].ret.payload = Undefined
        /\ RowsOf(d1, proc[p].op.mapper) # {}
\* ---- C16
\* the value count and sum take from the rows of a result
Reported(results, field) ==
    IF results = <<>> THEN 0
    ELSE IF field \in DOMAIN results[1] THEN results[1][field]
    ELSE 0

\* C16: count returns results[0].count and sum returns results[0].sum of
\* the response, and each returns 0 when the results have no row or the row
\* has no such value.
C16_CountSumOrZero ==
    \A p \in Procs :
        (proc[p].op.kind \in {"count", "sum"} /\ proc[p].pc = "done") =>
            proc[p].ret.payload =
                Reported(received[p].data.result[1].results, proc[p].op.kind)

\* sum over no matching row: the result row carries no sum, sum returns 0
C16_Witness ==
    \E p \in Procs :
        /\ proc[p].op.kind = "sum" /\ proc[p].pc = "done"
        /\ Len(received[p].data.result[1].results) = 1
        /\ "sum" \notin DOMAIN received[p].data.result[1].results[1]
        /\ proc[p].ret.payload = 0
        /\ RowsOf(d1, proc[p].op.mapper) # {}
\* ---- C17
\* the row with an id, undefined when there is none
RowAt(rows, id) ==
    IF \E r \in rows : r.id = id THEN CHOOSE r \in rows : r.id = id ELSE Undefined

\* C17: updateMany on n records resolves with n records and n meta blocks,
\* in input order: record i is the row with input record i's id as the
\* table holds it after the updates of records 1..i (undefined when there
\* is none), fetched by a SELECT on that id, and meta block i is the one of
\* the UPDATE of record i.
C17_UpdateManyResults ==
    \A p \in Procs :
        (proc[p].op.kind = "updateMany" /\ proc[p].pc = "done") =>
            LET recs == proc[p].op.records
                n == Len(recs)
                out == proc[p].ret
            IN /\ Len(out.payload) = n
               /\ DOMAIN out.meta = {"updates"}
               /\ Len(out.meta.updates) = n
               /\ \A i \in 1..n :
                     /\ DataLog(p)[2 * i].stmt = SelectOf(TableOf(p), recs[i].id)
                     /\ out.payload[i] =
                          RowAt(AppliedPrefix(proc[p].before, recs, i), recs[i].id)
                     /\ out.meta.updates[i] =
                          Meta(Cardinality({r \in AppliedPrefix(proc[p].before, recs, i - 1) :
                                              r.id = recs[i].id}), 0)

\* two records updated: the two stored rows come back in input order
C17_Witness ==
    \E p \in Procs :
        /\ proc[p].op.kind = "updateMany" /\ proc[p].pc = "done"
        /\ proc[p].op.records = <<[id |-> 2, v |-> 0], [id |-> 1, v |-> 1]>>
        /\ proc[p].ret.payload = proc[p].op.records
        /\ proc[p].ret.meta.updates = <<Meta(1, 0), Meta(1, 0)>>
        /\ proc[p].before # RowsOf(d1, proc[p].op.mapper)
\* ---- C18
\* the WHERE clause of the queries in Queries
WheresOf(query) ==
    IF query = <<>> THEN <<>> ELSE <<[field |-> "v", op |-> "=", value |-> 1]>>

\* C18: a successful updateAll has sent one request, the UPDATE with the
\* props and the WHERE clause of its query, and resolves with an empty
\* record list and the meta block of that UPDATE.
C18_UpdateAllOnce ==
    \A p \in Procs :
        (proc[p].op.kind = "updateAll" /\ proc[p].pc = "done") =>
            /\ Len(DataLog(p)) = 1
            /\ DataLog(p)[1].stmt =
                 [table |-> TableOf(p), method |-> "update", arg |-> proc[p].op.props,
                  wheres |-> WheresOf(proc[p].op.query),
                  limit |-> <<>>, offset |-> <<>>, orderBy |-> <<>>]
            /\ proc[p].ret.payload = <<>>
            /\ proc[p].ret.meta = received[p].data.result[1].meta

\* updateAll with a query changed one of two rows and returned no record
C18_Witness ==
    \E p \in Procs :
        /\ proc[p].op.kind = "updateAll" /\ proc[p].pc = "done"
        /\ proc[p].op.query # <<>>
        /\ proc[p].ret = Returned(<<>>, Meta(1, 0))
        /\ Cardinality(RowsOf(d1, proc[p].op.mapper)) = 2
\* ---- C19
\* C19: a successful destroy or destroyAll has sent one request, the DELETE
\* by the id or by the WHERE clause of the query, and resolves with
\* undefined as record and the meta block of that DELETE.
C19_DestroyReturnsMeta ==
    \A p \in Procs :
        (proc[p].op.kind \in {"destroy", "destroyAll"} /\ proc[p].pc = "done") =>
            /\ Len(DataLog(p)) = 1
            /\ DataLog(p)[1].stmt =
                 [table |-> TableOf(p), method |-> "delete", arg |-> <<>>,
                  wheres |-> IF proc[p].op.kind = "destroy"
                             THEN <<[field |-> "id", op |-> "=", value |-> proc[p].op.id]>>
                             ELSE WheresOf(proc[p].op.query),
                  limit |-> <<>>, offset |-> <<>>, orderBy |-> <<>>]
            /\ proc[p].ret.payload = Undefined
            /\ proc[p].ret.meta = received[p].data.result[1].meta

\* destroyAll with a query deleted one of two rows
C19_Witness ==
    \E p \in Procs :
        /\ proc[p].op.kind = "destroyAll" /\ proc[p].pc = "done"
        /\ proc[p].op.query # <<>>
        /\ proc[p].ret = Returned(Undefined, Meta(1, 0))
        /\ Cardinality(RowsOf(d1, proc[p].op.mapper)) = 1
\* ---- C20
RECURSIVE SnakeCase(_)
\* a name with "_" put before each uppercase letter, all in lowercase
SnakeCase(name) ==
    IF name = <<>> THEN <<>>
    ELSE LET c == name[1]
             k == IF \E i \in 1..26 : Uppers[i] = c
                  THEN CHOOSE i \in 1..26 : Uppers[i] = c ELSE 0
         IN (IF k = 0 THEN <<c>> ELSE <<"_", Lowers[k]>>) \o SnakeCase(Tail(name))

user_profile == <<"u","s","e","r","_","p","r","o","f","i","l","e">>

\* the table name the claim gives a mapper
Resolved(mapper) ==
    IF "table" \in DOMAIN mapper THEN mapper.table
    ELSE LET s == SnakeCase(mapper.name)
         IN IF s[1] = "_" THEN Tail(s) ELSE s

\* C20: the table of a mapper is its explicit table name, and otherwise its
\* name in snake case without the leading "_" (User is user, UserProfile is
\* user_profile); every statement of an operation, the request in flight
\* and the cache entry the operation adds carry that name.
C20_ResolvedName ==
    /\ [](/\ getTable(UserMapper) = user
          /\ getTable(ItemMapper) = <<"t">>
          /\ getTable(ProfileMapper) = user_profile
          /\ \A p \in Procs :
                proc[p].pc # "idle" =>
                   LET t == Resolved(proc[p].op.mapper)
                   IN /\ getTable(proc[p].op.mapper) = t
                      /\ \A i \in DOMAIN proc[p].log : proc[p].log[i].stmt.table = t
                      /\ net[p].state = "sent" => net[p].stmt.table = t
                      /\ (\E i \in DOMAIN proc[p].log :
                             /\ proc[p].log[i].stmt.method = "create"
                             /\ proc[p].log[i].status = "ok")
                         => t \in tableCache
          /\ tableCache \subseteq reported \cup {user, <<"t">>, user_profile})
    /\ [][\A p \in Procs :
            (proc[p].pc = "create" /\ proc'[p].pc = "ensured")
            => tableCache' = tableCache \cup {Resolved(proc[p].op.mapper)}]_vars

\* a CREATE TABLE for user_profile succeeded and the cache holds that name
C20_Witness ==
    \E p \in Procs :
        /\ proc[p].op.mapper = ProfileMapper
        /\ proc[p].pc \in {"ensured", "exec", "done"}
        /\ proc[p].log[1].stmt.method = "create"
        /\ proc[p].log[1].stmt.table = user_profile
        /\ user_profile \in tableCache

\* ------------------------------------------------ createTableSql claims
KeyConstraint == "PRIMARY KEY AUTOINCREMENT"

\* the statement of ddl.mapper has been compiled
Compiled == ddl.pc # "start"

\* the columns of the compiled statement, the id attribute and the schema's
\* properties of the mapper it was compiled for
Columns == ddl.stmt.columns
IdAttr == IF ddl.mapper.idAttribute = "" THEN "_id" ELSE ddl.mapper.idAttribute
Declared == PropertiesOf(ddl.mapper)

Named(name) == {i \in DOMAIN Columns : Columns[i][1] = name}
Keyed == {i \in DOMAIN Columns : \E k \in DOMAIN Columns[i] : Columns[i][k] = KeyConstraint}

\* the id attribute is declared in the schema after some other property
IdDeclaredLater == \E i \in DOMAIN Declared : i > 1 /\ Declared[i][1] = IdAttr

\* C21 (as stated): the statement has exactly one column named by the id
\* attribute, that column and no other carries PRIMARY KEY AUTOINCREMENT; it
\* is the synthesized column when the schema does not declare the id
\* attribute, and the schema's column with the constraint after its type
\* when it does.
C21_OneIdColumn ==
    Compiled =>
        /\ Cardinality(Named(IdAttr)) = 1
        /\ Keyed = Named(IdAttr)
        /\ \A i \in Named(IdAttr) :
              IF Has(Declared, IdAttr)
              THEN Len(Columns[i]) >= 3 /\ Columns[i][3] = KeyConstraint
              ELSE Columns[i] = <<IdAttr, "INTEGER", KeyConstraint>>

\* C21 (what the code does): the above holds when the schema does not
\* declare the id attribute or declares it first; when the schema declares
\* it after another property the statement has no column named by the id
\* attribute and no column carries PRIMARY KEY AUTOINCREMENT.
C21_IdColumnUnlessDeclaredLater ==
    Compiled =>
        IF IdDeclaredLater
        THEN Named(IdAttr) = {} /\ Keyed = {}
        ELSE /\ Cardinality(Named(IdAttr)) = 1
             /\ Keyed = Named(IdAttr)
             /\ \A i \in Named(IdAttr) :
                   IF Has(Declared, IdAttr)
                   THEN Len(Columns[i]) >= 3 /\ Columns[i][3] = KeyConstraint
                   ELSE Columns[i] = <<IdAttr, "INTEGER", KeyConstraint>>

\* the statement was compiled for a schema that declares name, then id
C21_Witness ==
    /\ Compiled
    /\ IdAttr = "id"
    /\ Len(Declared) = 2
    /\ Declared[1][1] = "name" /\ Declared[2] = <<"id", [type |-> "integer"]>>
    /\ Len(Columns) = 1

\* the names of the statement's columns and of the schema's properties, in order
ColumnNames == [i \in DOMAIN Columns |-> Columns[i][1]]
DeclaredNames == [i \in DOMAIN Declared |-> Declared[i][1]]

\* C22 (as stated): the column list is the synthesized id column, only if
\* the schema does not declare the id attribute, followed by one column for
\* every schema property in declaration order, none omitted or duplicated.
C22_EveryPropertyInOrder ==
    Compiled =>
        ColumnNames = (IF Has(Declared, IdAttr) THEN <<>> ELSE <<IdAttr>>) \o DeclaredNames

\* C22 (what the code does): as stated, except that an id attribute the
\* schema declares after another property has no column.
C22_EveryPropertyButLaterId ==
    Compiled =>
        ColumnNames =
            IF IdDeclaredLater
            THEN SelectSeq(DeclaredNames, LAMBDA n : n # IdAttr)
            ELSE (IF Has(Declared, IdAttr) THEN <<>> ELSE <<IdAttr>>) \o DeclaredNames

\* the statement compiled for a schema declaring email, then id, has the
\* one column email
C22_Witness ==
    /\ Compiled
    /\ IdAttr = "id"
    /\ DeclaredNames = <<"email", "id">>
    /\ ColumnNames = <<"email">>

\* the schema columns of the statement: those made from a schema property
SchemaColumnsOf == {i \in DOMAIN Columns : Has(Declared, Columns[i][1])}

\* the property a schema column was made from
PropertyOf(i) == Get(Declared, Columns[i][1])

\* C23: the SQL type of each schema column follows from the declared type:
\* string gives TEXT, number and integer give INTEGER, boolean gives
\* INTEGER, object and array give TEXT, any other or missing type gives TEXT.
C23_ColumnTypes ==
    Compiled =>
        \A i \in SchemaColumnsOf :
            LET fieldSchema == PropertyOf(i)
                declared == IF "type" \in DOMAIN fieldSchema THEN fieldSchema.type ELSE "none"
            IN /\ declared = "string" => Columns[i][2] = "TEXT"
               /\ declared \in {"number", "integer"} => Columns[i][2] = "INTEGER"
               /\ declared = "boolean" => Columns[i][2] = "INTEGER"
               /\ declared \in {"object", "array"} => Columns[i][2] = "TEXT"
               /\ declared \notin {"string", "number", "integer", "boolean", "object", "array"}
                  => Columns[i][2] = "TEXT"

\* a statement with a boolean column and a column of an unknown type
C23_Witness ==
    /\ Compiled
    /\ Declared = << <<"name", [type |-> "boolean"]>>, <<"email", [type |-> "date"]>> >>
    /\ Columns = << <<"_id", "INTEGER", KeyConstraint>>, <<"name", "INTEGER">>,
                    <<"email", "TEXT">> >>

\* the position of a part in a column definition, 0 when it has no such part
Pos(column, part) ==
    IF \E k \in DOMAIN column : column[k] = part
    THEN CHOOSE k \in DOMAIN column : column[k] = part /\ \A j \in 1..(k - 1) : column[j] # part
    ELSE 0

IsTrue(fieldSchema, key) == key \in DOMAIN fieldSchema /\ fieldSchema[key] = TRUE

ConstraintOrder == <<KeyConstraint, "NOT NULL", "UNIQUE", "DEFAULT">>

\* C24: after the type, a schema column carries PRIMARY KEY AUTOINCREMENT
\* exactly when it is the id attribute, NOT NULL exactly when required or
\* notNull is true, UNIQUE exactly when unique is true, DEFAULT and the value
\* exactly when a default is present, a string value in single quotes; these
\* parts come in that order and there is no other part. The scenario's
\* schema gives the scenario's statement.
C24_Constraints ==
    Compiled =>
        /\ \A i \in SchemaColumnsOf :
              LET column == Columns[i]
                  fieldSchema == PropertyOf(i)
                  present == {k \in 1..4 : Pos(column, ConstraintOrder[k]) # 0}
              IN /\ (1 \in present) = (column[1] = IdAttr)
                 /\ (2 \in present) = (IsTrue(fieldSchema, "required")
                                        \/ IsTrue(fieldSchema, "notNull"))
                 /\ (3 \in present) = IsTrue(fieldSchema, "unique")
                 /\ (4 \in present) = ("default" \in DOMAIN fieldSchema)
                 /\ \A k \in present : Pos(column, ConstraintOrder[k]) > 2
                 /\ \A j, k \in present :
                       j < k => Pos(column, ConstraintOrder[j]) < Pos(column, ConstraintOrder[k])
                 /\ Len(column) = 2 + Cardinality(present) + (IF 4 \in present THEN 1 ELSE 0)
                 /\ 4 \in present =>
                       LET value == fieldSchema["default"]
                       IN column[Len(column)] =
                             IF value.typeof = "string"
                             THEN "'" \o value.text \o "'" ELSE value.text
        /\ ddl.mapper = SchemaMapper("id", ScenarioProperties)
           => DdlText(ddl.stmt) =
                "CREATE TABLE IF NOT EXISTS t (id INTEGER PRIMARY KEY AUTOINCREMENT, name TEXT NOT NULL, email TEXT UNIQUE)"

\* the statement of the scenario's schema has been compiled
C24_Witness ==
    /\ Compiled
    /\ ddl.mapper = SchemaMapper("id", ScenarioProperties)
    /\ Columns = << <<"id", "INTEGER", KeyConstraint>>, <<"name", "TEXT", "NOT NULL">>,
                    <<"email", "TEXT", "UNIQUE">> >>
    /\ DdlText(ddl.stmt) =
         "CREATE TABLE IF NOT EXISTS t (id INTEGER PRIMARY KEY AUTOINCREMENT, name TEXT NOT NULL, email TEXT UNIQUE)"

QueryCompiled == qry.pc # "start"

\* the caller's query as it was when the operation was called
Given == IF qry.caller = 0 THEN <<>> ELSE Value(qry.before, qry.caller)

\* C26: after an operation has compiled the caller's query, the caller's
\* object and every object nested in it hold what they held before the
\* call (the keys toSql deletes are deleted from copies).
C26_QueryNotMutated ==
    QueryCompiled =>
        /\ \A a \in DOMAIN qry.before : qry.heap[a] = qry.before[a]
        /\ qry.caller # 0 => Value(qry.heap, qry.caller) = Given

\* a query with where objects two levels down was compiled: the caller's
\* three objects are there, and so are the copies, those toSql worked on
\* emptied
C26_Witness ==
    /\ QueryCompiled
    /\ Len(qry.before) = 3
    /\ Has(Given, "where") /\ Has(Get(Given, "where"), "where")
    /\ Len(qry.heap) = 9
    /\ \A a \in {6, 8, 9} : qry.heap[a] = <<>>
    /\ Len(qry.builder.wheres) = 3

Keys(query) == {query[i][1] : i \in DOMAIN query}

\* the query has no key but limit and offset, and at least one of them
OnlyPaging == Given # <<>> /\ Keys(Given) \subseteq {"limit", "offset"}

\* the ids of the result rows, in order
ResultIds == [i \in DOMAIN qry.results |-> qry.results[i].id]

\* C27: for a query whose only keys are limit and/or offset, whatever the
\* order of the keys, the statement has the given limit as its one row cap
\* and the given offset as its one row skip, a cap or skip exactly when the
\* key is given, and no filter or ordering; findAll then returns the rows in
\* id order from the one after the skipped ones, as many as the cap allows.
C27_OneLimitOneOffset ==
    (QueryCompiled /\ OnlyPaging) =>
        LET skip == IF "offset" \in Keys(Given) THEN Get(Given, "offset") ELSE 0
            last == IF "limit" \in Keys(Given) /\ skip + Get(Given, "limit") < 4
                    THEN skip + Get(Given, "limit") ELSE 4
        IN /\ qry.builder.limit =
                 (IF "limit" \in Keys(Given) THEN <<Get(Given, "limit")>> ELSE <<>>)
           /\ qry.builder.offset =
                 (IF "offset" \in Keys(Given) THEN <<Get(Given, "offset")>> ELSE <<>>)
           /\ qry.builder.wheres = <<>>
           /\ qry.builder.orderBy = <<>>
           /\ (qry.pc = "ran" /\ qry.kind = "findAll")
              => ResultIds = [i \in 1..(last - skip) |-> skip + i]

\* findAll ran with a query whose offset key was inserted before its limit key
C27_Witness ==
    /\ qry.pc = "ran" /\ qry.kind = "findAll"
    /\ Given = << <<"offset", 1>>, <<"limit", 2>> >>
    /\ qry.builder.limit = <<2>> /\ qry.builder.offset = <<1>>
    /\ ResultIds = <<2, 3>>

\* the limit, offset and ordering a query object itself carries
OwnPage(query, key) == IF key \in Keys(query) THEN <<Get(query, key)>> ELSE <<>>
OwnOrder(query) ==
    IF "orderBy" \in Keys(query)
    THEN [i \in DOMAIN Get(query, "orderBy") |->
            <<Get(query, "orderBy")[i][1],
              [k \in DOMAIN Get(query, "orderBy")[i][2] |->
                  toLowerCase(Get(query, "orderBy")[i][2][k])]>>]
    ELSE <<>>

RECURSIVE LastPage(_, _)
\* the limit or offset of the most deeply nested object that carries one
LastPage(query, key) ==
    IF "where" \in Keys(query) /\ LastPage(Get(query, "where"), key) # <<>>
    THEN LastPage(Get(query, "where"), key)
    ELSE OwnPage(query, key)

RECURSIVE EveryOrder(_)
\* the orderBy entries of a query followed by those of its nested objects
EveryOrder(query) ==
    OwnOrder(query)
    \o (IF "where" \in Keys(query) THEN EveryOrder(Get(query, "where")) ELSE <<>>)

\* C28 (as stated): limit, offset and orderBy inside a nested where object
\* are ignored: the statement's row cap, row skip and ordering are those of
\* the top-level query.
C28_NestedPagingIgnored ==
    QueryCompiled =>
        /\ qry.builder.limit = OwnPage(Given, "limit")
        /\ qry.builder.offset = OwnPage(Given, "offset")
        /\ qry.builder.orderBy = OwnOrder(Given)

\* C28 (what the code does): a limit or offset inside a nested where object
\* replaces the one of the objects around it, and the orderBy entries of a
\* nested object are added after those of the objects around it.
C28_NestedPagingApplied ==
    QueryCompiled =>
        /\ qry.builder.limit = LastPage(Given, "limit")
        /\ qry.builder.offset = LastPage(Given, "offset")
        /\ qry.builder.orderBy = EveryOrder(Given)

\* findAll ran with limit 1 and a where object carrying limit 2: two rows
C28_Witness ==
    /\ qry.pc = "ran" /\ qry.kind = "findAll"
    /\ Given = << <<"limit", 1>>, <<"where", << <<"limit", 2>> >> >> >>
    /\ qry.builder.limit = <<2>>
    /\ ResultIds = <<1, 2>>

RECURSIVE CondEntries(_, _)
\* the (field, operator, value) entries of one field's condition object
CondEntries(field, cond) ==
    IF cond = <<>> THEN <<>>
    ELSE << <<field, cond[1][1], cond[1][2]>> >> \o CondEntries(field, Tail(cond))

RECURSIVE FieldEntries(_)
FieldEntries(fields) ==
    IF fields = <<>> THEN <<>>
    ELSE CondEntries(fields[1][1], fields[1][2]) \o FieldEntries(Tail(fields))

RECURSIVE Entries(_)
\* every (field, operator, value) entry of a query with a recognized
\* operator: those of the nested where object, then the query's own
Entries(query) ==
    (IF "where" \in Keys(query) THEN Entries(Get(query, "where")) ELSE <<>>)
    \o SelectSeq(FieldEntries(SelectSeq(query, LAMBDA e :
                                  e[1] \notin {"limit", "offset", "orderBy", "where"})),
                 LAMBDA e : e[2] \in CompareOps \cup SetOps)

\* the comparison an operator symbol stands for, of a row's field with the value
Satisfies(row, entry) ==
    LET x == row[entry[1]]
        op == entry[2]
        value == entry[3]
    IN CASE op \in {"==", "==="}            -> x = value
         [] op \in {"!=", "!=="}            -> x # value
         [] op = ">"                        -> x > value
         [] op = ">="                       -> x >= value
         [] op = "<"                        -> x < value
         [] op = "<="                       -> x <= value
         [] op \in {"in", "contains"}       -> \E k \in DOMAIN value : value[k] = x
         [] op \in {"notIn", "notContains"} -> \A k \in DOMAIN value : value[k] # x

\* the rows that satisfy every entry of the caller's query
Selected == {r \in QueryRows : \A k \in DOMAIN Entries(Given) : Satisfies(r, Entries(Given)[k])}

Unpaged == qry.builder.limit = <<>> /\ qry.builder.offset = <<>>

\* C29: every entry of the query with a recognized operator, at the top
\* level or in a where object at any depth, several operators of one field
\* included, gives exactly one clause on its field and value; the clauses
\* are combined by AND: findAll returns, and destroyAll deletes, exactly the
\* rows that satisfy every entry. {age: {'>=': 18, '<': 65}} selects exactly
\* the rows with 18 <= age < 65.
C29_OneClausePerEntry ==
    QueryCompiled =>
        /\ Len(qry.builder.wheres) = Len(Entries(Given))
        /\ \A k \in DOMAIN Entries(Given) :
              /\ qry.builder.wheres[k].field = Entries(Given)[k][1]
              /\ qry.builder.wheres[k].value = Entries(Given)[k][3]
        /\ (qry.pc = "ran" /\ qry.kind = "findAll" /\ Unpaged)
           => /\ {qry.results[i] : i \in DOMAIN qry.results} = Selected
              /\ Len(qry.results) = Cardinality(Selected)
        /\ (qry.pc = "ran" /\ qry.kind = "destroyAll")
           => d1[<<"t">>] = QueryRows \ Selected
        /\ Given = << <<"age", << <<">=", 18>>, <<"<", 65>> >> >> >>
           => Selected = {r \in QueryRows : 18 <= r.age /\ r.age < 65}

\* findAll ran with {age: {'>=': 18, '<': 65}}: two clauses, and the rows
\* of age 18 and 64 but not those of age 17 and 65
C29_Witness ==
    /\ qry.pc = "ran" /\ qry.kind = "findAll"
    /\ Given = << <<"age", << <<">=", 18>>, <<"<", 65>> >> >> >>
    /\ Len(qry.builder.wheres) = 2
    /\ ResultIds = <<2, 3>>

\* the SQL comparison of an operator symbol
SqlOp(op) ==
    CASE op \in {"==", "==="}            -> "="
      [] op \in {"!=", "!=="}            -> "<>"
      [] op \in {">", ">=", "<", "<="}   -> op
      [] op \in {"in", "contains"}       -> "in"
      [] op \in {"notIn", "notContains"} -> "not in"

\* C30: the clause of an entry compares with the comparison its operator
\* symbol stands for: == and === equals, != and !== not-equals, >, >=, <, <=
\* themselves, in and contains membership, notIn and notContains exclusion;
\* count counts, sum adds up and updateAll updates exactly the rows whose
\* field values satisfy the comparisons.
C30_OperatorComparisons ==
    QueryCompiled =>
        /\ \A k \in DOMAIN Entries(Given) :
              /\ k \in DOMAIN qry.builder.wheres
              /\ qry.builder.wheres[k].op = SqlOp(Entries(Given)[k][2])
        /\ (qry.pc = "ran" /\ qry.kind = "count" /\ Unpaged)
           => qry.results = <<[count |-> Cardinality(Selected)]>>
        /\ (qry.pc = "ran" /\ qry.kind = "sum" /\ Unpaged /\ Selected # {})
           => qry.results = <<[sum |-> Cardinality({r \in Selected : r.v = 1})]>>
        /\ (qry.pc = "ran" /\ qry.kind = "updateAll")
           => d1[<<"t">>] = (QueryRows \ Selected) \cup {[r EXCEPT !.v = 1] : r \in Selected}

\* count ran with {age: {notIn: [18, 65]}}: the rows of age 17 and 64 count
C30_Witness ==
    /\ qry.pc = "ran" /\ qry.kind = "count"
    /\ Given = << <<"age", << <<"notIn", <<18, 65>> >> >> >> >>
    /\ qry.builder.wheres = <<[field |-> "age", op |-> "not in", value |-> <<18, 65>>]>>
    /\ qry.results = <<[count |-> 2]>>

Recognized == CompareOps \cup SetOps

RECURSIVE Stripped(_)
\* the query without the entries whose operator is not recognized, at every depth
Stripped(query) ==
    [i \in DOMAIN query |->
        IF query[i][1] = "where" THEN <<"where", Stripped(query[i][2])>>
        ELSE IF query[i][1] \in {"limit", "offset", "orderBy"} THEN query[i]
        ELSE <<query[i][1], SelectSeq(query[i][2], LAMBDA e : e[1] \in Recognized)>>]

\* the entries of the query whose operator is not recognized, top level and below
RECURSIVE Unrecognized(_)
Unrecognized(query) ==
    (IF "where" \in Keys(query) THEN Unrecognized(Get(query, "where")) ELSE <<>>)
    \o SelectSeq(FieldEntries(SelectSeq(query, LAMBDA e :
                                  e[1] \notin {"limit", "offset", "orderBy", "where"})),
                 LAMBDA e : e[2] \notin Recognized)

\* the builder the operation hands to toSql
BuilderOf(kind) ==
    CASE kind = "count"      -> [knex(<<"t">>) EXCEPT !.method = "count"]
      [] kind = "findAll"    -> knex(<<"t">>)
      [] kind = "updateAll"  -> [knex(<<"t">>) EXCEPT !.method = "update", !.arg = [v |-> 1]]
      [] kind = "destroyAll" -> [knex(<<"t">>) EXCEPT !.method = "delete"]
      [] kind = "sum"        -> [knex(<<"t">>) EXCEPT !.method = "sum", !.arg = "v"]

\* C31: an entry whose operator key is not recognized gives no clause and
\* no error: the statement compiled for a query, values included, is the
\* statement compiled for the query without those entries, and no clause
\* of it carries such an operator's field and value in their place.
C31_UnrecognizedDropped ==
    QueryCompiled =>
        /\ qry.builder = toSql(BuilderOf(qry.kind), Stripped(Given))
        /\ Len(qry.builder.wheres) = Len(Entries(Stripped(Given)))
        /\ \A i \in DOMAIN qry.builder.wheres :
              qry.builder.wheres[i].op \in {"=", "<>", ">", ">=", "<", "<=", "in", "not in"}

\* findAll ran with {age: {in: [18, 64, 65], like: 1}} on top of a where
\* object: the like entry left no clause, and the rows came back
C31_Witness ==
    /\ qry.pc = "ran" /\ qry.kind = "findAll"
    /\ Unrecognized(Given) = << <<"age", "like", 1>> >>
    /\ Len(Entries(Given)) = 3
    /\ Len(qry.builder.wheres) = 3
    /\ ResultIds = <<2, 3>>

RECURSIVE Erased(_)
\* the query with every scalar comparison value replaced by 0
Erased(query) ==
    [i \in DOMAIN query |->
        IF query[i][1] = "where" THEN <<"where", Erased(query[i][2])>>
        ELSE IF query[i][1] \in {"limit", "offset", "orderBy"} THEN query[i]
        ELSE <<query[i][1],
               [j \in DOMAIN query[i][2] |->
                   IF query[i][2][j][1] \in SetOps THEN query[i][2][j]
                   ELSE <<query[i][2][j][1], 0>>]>>]

\* the values of the recognized predicates of a query, in clause order
PredicateValues(query) ==
    LET entries == SelectSeq(Entries(query), LAMBDA e : e[2] \in Recognized)
    IN Flatten([i \in DOMAIN entries |->
                   IF entries[i][2] \in SetOps THEN entries[i][3] ELSE <<entries[i][3]>>])

\* the values a statement binds before and after those of its predicates
ColumnValues(kind) == IF kind = "updateAll" THEN <<1>> ELSE <<>>
PagingValues(builder) ==
    IF builder.method \in {"select", "count", "sum"}
    THEN builder.limit \o builder.offset ELSE <<>>

\* C32: comparison values are never placed into the SQL text: the
\* parameter list handed to _executeSQL carries the values of the
\* recognized predicates in clause order (after the values an UPDATE sets,
\* before those of LIMIT and OFFSET), and any query that differs from the
\* given one only in scalar comparison values compiles to the same text.
C32_ValuesAreParameters ==
    QueryCompiled =>
        /\ qry.sent.bindings = ColumnValues(qry.kind) \o PredicateValues(Given)
                                   \o PagingValues(qry.builder)
        /\ \A other \in CompileQueries :
              Erased(other) = Erased(Given) =>
                  toSQL(toSql(BuilderOf(qry.kind), other)).sql = qry.sent.sql

\* count ran with {age: {'>': 18}}: the text has a placeholder, the value
\* is the one parameter, and {age: {'>': 64}} compiles to the same text
C32_Witness ==
    /\ qry.pc = "ran" /\ qry.kind = "count"
    /\ Given = << <<"age", << <<">", 18>> >> >> >>
    /\ qry.sent = [sql |-> "select count(*) as count from t where age > ?",
                   bindings |-> <<18>>]
    /\ toSQL(toSql(BuilderOf("count"), << <<"age", << <<">", 64>> >> >> >>)).sql
          = qry.sent.sql
    /\ qry.results = <<[count |-> 2]>>

\* C33: the table cache only grows: no step of an operation, of
\* _ensureTable or of the constructor's seeding task, in any interleaving,
\* removes a name from it.
C33_CacheOnlyGrows == [][tableCache \subseteq tableCache']_vars

\* the catalog reported a table, a provisioning call added another, and a
\* provisioning call for a cached table has failed
C33_Witness ==
    /\ seed = "done" /\ reported # {}
    /\ tableCache \ reported # {}
    /\ provisionFailed \cap tableCache # {}

\* the seeding task resumes in this step with the catalog's rows
Seeded == seed = "wait" /\ seed' = "done"

\* caller p's provisioning call completes successfully in this step
Provisioned(p) ==
    /\ proc[p].pc = "create" /\ proc'[p].pc = "ensured"
    /\ IsCreate(net[p].stmt)
    /\ ~received'[p].threw /\ received'[p].data.success

\* C34: the cache is sound: a name enters it only as a name the catalog
\* query reported, being a table of the database at that moment, or as the
\* resolved name of the table of an operation whose provisioning call has
\* just completed successfully; and, tables never being dropped, every
\* cached table exists in the database.
C34_CacheSound ==
    /\ [](tableCache \subseteq DOMAIN d1)
    /\ [][\A t \in tableCache' \ tableCache :
            \/ Seeded /\ t \in reported' /\ t \in DOMAIN d1
            \/ \E p \in Procs : Provisioned(p) /\ t = TableOf(p) /\ t \in DOMAIN d1']_vars

\* the cache holds a table the catalog reported and one that an operation
\* provisioned, the catalog not having reported it; both exist
C34_Witness ==
    /\ seed = "done"
    /\ user \in reported /\ user \in tableCache
    /\ \E p \in Procs :
          /\ proc[p].pc = "ensured" /\ Granted(p)
          /\ TableOf(p) \in tableCache \ reported
          /\ createCalls[TableOf(p)] = 1
    /\ tableCache \subseteq DOMAIN d1

\* caller p's operation hands a data statement to the endpoint in this step
SendsData(p) ==
    /\ net[p].state # "sent" /\ net'[p].state = "sent"
    /\ ~IsCreate(net'[p].stmt)

\* C35: a data statement on a table is sent only when the operation's own
\* _ensureTable has completed without throwing, and whenever one is sent
\* its table is in the cache, whatever the interleaving with the other
\* operations and the seeding task.
C35_SentOnlyWhenCached ==
    [][\A p \in Procs :
          SendsData(p) =>
              /\ proc[p].pc = "ensured" /\ proc'[p].pc = "exec"
              /\ net'[p].stmt.table = TableOf(p)
              /\ TableOf(p) \in tableCache /\ TableOf(p) \in tableCache']_vars

\* two overlapping operations on one table have their data statements in
\* flight: one provisioned the table itself, the other found it cached
C35_Witness ==
    \E p, q \in Procs :
        /\ p # q /\ TableOf(p) = TableOf(q)
        /\ proc[p].pc = "exec" /\ net[p].state = "sent" /\ ~IsCreate(net[p].stmt)
        /\ proc[q].pc = "exec" /\ net[q].state = "sent" /\ ~IsCreate(net[q].stmt)
        /\ CreatesOf(p) = {1} /\ CreatesOf(q) = {}
        /\ TableOf(p) \in tableCache

\* the number of data statements of a successful operation
DataCalls(o) ==
    CASE o.kind = "update"     -> 2
      [] o.kind = "updateMany" -> 2 * Len(o.records)
      [] OTHER                 -> 1

\* the log of caller p begins with a CREATE TABLE
CreateFirst(log) == log # <<>> /\ IsCreate(log[1].stmt)

\* what holds of the remote calls of an operation that has returned: the
\* data statements are as many as the operation's kind fixes, every one
\* succeeded, update's are an UPDATE then a SELECT, and a CREATE TABLE, if
\* there is one, is the first call and the only one
FixedCalls(p) ==
    LET log == proc[p].log
        data == DataLog(p)
    IN /\ Len(data) = DataCalls(proc[p].op)
       /\ Len(log) = Len(data) + (IF CreateFirst(log) THEN 1 ELSE 0)
       /\ \A i \in DOMAIN data : ~IsCreate(data[i].stmt)
       /\ \A i \in DOMAIN log : log[i].status = "ok"
       /\ proc[p].op.kind \in {"update", "updateMany"} =>
              \A i \in DOMAIN data :
                  data[i].stmt.method = (IF i % 2 = 1 THEN "update" ELSE "select")

\* the calls of a running operation are added at the end of its log
LogGrows(p) ==
    proc[p].pc \notin {"idle", "done", "rejected"} =>
        /\ Len(proc'[p].log) >= Len(proc[p].log)
        /\ \A i \in DOMAIN proc[p].log : proc'[p].log[i].stmt = proc[p].log[i].stmt

ReceivedMeta(p) == received[p].data.result[1].meta

\* caller p's statement is answered in this step and the operation returns
Returns(p) == proc[p].pc = "exec" /\ proc'[p].pc = "done"

\* the props of the update leave the row's id as it is
KeepsId(o) == "id" \in DOMAIN o.props => o.props.id = o.id

\* C37: update returns the metadata of its UPDATE statement, whose changes
\* count is the number of rows with the id (of an UPDATE that leaves the id
\* as it is: the rows with the id afterwards), and not that of the follow-up
\* SELECT; every other single-statement operation returns the meta block
\* of the response to its own statement.
C37_UpdateReturnsUpdateMeta ==
    /\ [](\A p \in Procs :
            proc[p].pc = "done" /\ proc[p].op.kind = "update" =>
                /\ KeepsId(proc[p].op) =>
                      proc[p].ret.meta =
                         Meta(Cardinality({r \in RowsOf(d1, proc[p].op.mapper) :
                                              r.id = proc[p].op.id}), 0)
                /\ proc[p].log[Len(proc[p].log)].stmt.method = "select"
                /\ ReceivedMeta(p) = Meta(0, 0))
    /\ [][\A p \in Procs :
            /\ proc[p].pc = "exec" /\ proc[p].method = "update" /\ proc'[p].method = "find"
                  => proc'[p].meta = ReceivedMeta(p)'
            /\ Returns(p) /\ proc[p].op.kind = "update"
                  => proc'[p].ret.meta = proc[p].meta
            /\ Returns(p) /\ proc[p].op.kind \notin {"update", "updateMany"}
                  => proc'[p].ret.meta = ReceivedMeta(p)']_vars

\* update of an existing row has returned the row with changes 1, the
\* response to its SELECT carrying changes 0
C37_Witness ==
    \E p \in Procs :
        /\ proc[p].pc = "done" /\ proc[p].op.kind = "update"
        /\ proc[p].ret.meta.changes = 1
        /\ proc[p].ret.payload = [id |-> proc[p].op.id, v |-> proc[p].op.props.v]
        /\ ReceivedMeta(p).changes = 0

\* the error of the failed call whose response caller p has received
ReceivedError(p) ==
    IF received[p].threw THEN received[p].error
    ELSE [message |-> received[p].data.errors[1].message]

\* caller p's update is rejected, its UPDATE having succeeded and its
\* follow-up SELECT having failed
FetchFailed(p) ==
    LET log == proc[p].log
    IN /\ proc[p].pc = "rejected" /\ proc[p].op.kind = "update"
       /\ Len(log) >= 2
       /\ log[Len(log)].stmt.method = "select" /\ log[Len(log)].status = "failed"
       /\ log[Len(log) - 1].stmt.method = "update" /\ log[Len(log) - 1].status = "ok"

\* C38: when update's UPDATE succeeded and its follow-up fetch fails,
\* update is rejected with the error of the fetch and with nothing else,
\* neither a record nor the UPDATE's metadata; the failing step leaves the
\* database as the UPDATE left it, and so does every step until the caller
\* takes the rejection: a row the UPDATE changed holds the new values.
C38_FetchFailureAfterUpdate ==
    /\ [](\A p \in Procs :
            FetchFailed(p) =>
                /\ Failed(p)
                /\ proc[p].ret = [error |-> ReceivedError(p)]
                /\ DOMAIN proc[p].ret = {"error"}
                /\ proc[p].meta.changes = 1 =>
                      \E r \in RowsOf(d1, proc[p].op.mapper) :
                          \A k \in DOMAIN proc[p].op.props : r[k] = proc[p].op.props[k])
    /\ [][\A p \in Procs : FetchFailed(p)' => d1' = d1]_vars

\* update of row 1 is rejected with the network error of its SELECT; the
\* UPDATE had changed one row, and the row holds the new value
C38_Witness ==
    \E p \in Procs :
        /\ FetchFailed(p)
        /\ proc[p].ret = [error |-> [message |-> <<"Network error">>]]
        /\ proc[p].meta.changes = 1
        /\ proc[p].op.id = 1 /\ proc[p].op.props = [v |-> 1]
        /\ [id |-> 1, v |-> 1] \in d1[user]
        /\ [id |-> 1, v |-> 0] \in InitialRows

\* the catalog query of the seeding task fails in this step
SeedFails == seed = "wait" /\ seed' \notin {"wait", "done"}

\* an operation invoked after the catalog query failed, the program still
\* running, is treated as any other: its table is cached only if an
\* operation provisioned it, and on a miss it provisions, or is rejected
\* with table-not-found when auto-creation is off
AfterFailedSeed ==
    /\ [](seed = "failed" => reported = {} /\ \A t \in tableCache : createCalls[t] > 0)
    /\ [][\A p \in Procs :
            seed = "failed" /\ Invoked(p) /\ ~EmptyUpdateMany(proc'[p].op) => C7_Step(p)]_vars

\* C39 as stated: a failure of the construction-time catalog query leaves
\* the cache unchanged and makes no later operation fail: the program runs
\* on, and the next operation behaves as on a cache miss.
C39_SeedFailureHarmless ==
    /\ [][SeedFails => tableCache' = tableCache /\ HostRunning']_vars
    /\ AfterFailedSeed

\* C39: a failure of the construction-time catalog query leaves the cache
\* unchanged; the rejection of the seeding task has no handler, and either
\* the host ends the process, after which no operation is served and none
\* in flight settles, or the program runs on and the next operation
\* behaves as on a cache miss.
C39_SeedFailureUnhandled ==
    /\ [][SeedFails => tableCache' = tableCache /\ d1' = d1 /\ proc' = proc]_vars
    /\ [][HostRunning]_vars
    /\ AfterFailedSeed

\* the catalog query failed while an operation had its statement in
\* flight: the process is gone and the operation never settles
C39_Witness ==
    /\ seed = "aborted"
    /\ tableCache = {}
    /\ \E p \in Procs : proc[p].pc = "create" /\ net[p].state = "sent"

\* caller p's operation is under way
Running(p) == proc[p].pc \in {"create", "ensured", "exec"}

\* caller p's operation has returned or has been rejected
Completed(p) == proc[p].pc \in {"done", "rejected"}

\* an operation issues at most its data statements and one CREATE TABLE:
\* updateMany on n records at most 2n + 1 calls
BoundedCalls ==
    \A p \in Procs : Len(proc[p].log) <= DataCalls(proc[p].op) + 1

\* C40 as stated: every remote call being answered in the end, every
\* operation returns or is rejected in the end, whatever the interleaving
\* with the other operations and the seeding task, and updateMany on n
\* records issues at most 2n + 1 remote calls.
C40_EveryOperationCompletes ==
    /\ \A p \in Procs : Running(p) ~> Completed(p)
    /\ []BoundedCalls

\* C40: every remote call being answered in the end, every operation
\* returns or is rejected in the end unless the process has ended on the
\* unhandled rejection of the seeding task; an operation under way always
\* has a call in flight or a continuation ready; updateMany on n records
\* issues at most 2n + 1 remote calls.
C40_CompletesWhileHostRuns ==
    /\ \A p \in Procs : Running(p) ~> (Completed(p) \/ ~HostRunning)
    /\ [](\A p \in Procs : proc[p].pc \in {"create", "exec"} => net[p].state = "sent")
    /\ []BoundedCalls

\* updateMany has sent CREATE TABLE, its UPDATE and its SELECT, the catalog
\* query has failed and the process has ended: the SELECT's answer is never
\* taken
C40_Witness ==
    \E p \in Procs :
        /\ proc[p].op.kind = "updateMany" /\ proc[p].pc = "exec"
        /\ Len(proc[p].log) = 2 * Len(proc[p].op.records) + 1
        /\ net[p].state = "sent"
        /\ ~HostRunning
====
